---------------------------- MODULE Spec2Model ----------------------------
(***************************************************************************)
(* Car-Speed-Via-Doppler library: Doppler speed calculator, frequency      *)
(* matcher, three-tier speed selection, audio sectioning and spectrum      *)
(* analyzer.                                                               *)
(*                                                                         *)
(* Numbers.  The JavaScript code computes in IEEE doubles.  Frequencies    *)
(* are drawn from small sets of integers, and a speed is kept as the exact *)
(* Doppler ratio (f1 - f2) / (f1 + f2) in lowest terms together with its   *)
(* unit: km/h = 343 * 3.6 * ratio, mph = km/h * 0.621371.  Every test the  *)
(* code makes on a speed is evaluated exactly by integer cross             *)
(* multiplication.                                                         *)
(***************************************************************************)
EXTENDS Integers, Sequences, FiniteSets, TLC

VARIABLES
    minReasonableSpeed,   \* DopplerSpeedCalculator.minReasonableSpeed (km/h)
    maxReasonableSpeed,   \* DopplerSpeedCalculator.maxReasonableSpeed (km/h)
    dop,                  \* the last calculator call: operation, arguments, result
    argApproach,          \* findBestSpeedCalculation: approach candidates
    argRecede,            \* findBestSpeedCalculation: recede candidates
    argExpected,          \* findBestSpeedCalculation: expected speed, 0 for null
    best,                 \* findBestSpeedCalculation: tier results and outcome
    anaApproach,          \* combineAnalyses: the approach section analysis
    anaRecede,            \* combineAnalyses: the recede section analysis
    anaThreshold,         \* FrequencyAnalysis.confidenceThreshold, in percent
    combined,             \* FrequencyAnalysis.combinedAnalysis
    slLength,             \* sectioning: samples.length
    slRate,               \* sectioning: sampleRate
    sliced,               \* sectioning: the last call and its result
    analysis,             \* analyzeAudioForSpeed: the last call and its result
    spLength,             \* SpectrumAnalyzer.samples.length
    spRate,               \* SpectrumAnalyzer.sampleRate
    spPower,              \* the power spectrum of SpectrumAnalyzer.samples
    fftImplementation,    \* SpectrumAnalyzer.fftImplementation: none, async, sync
    powerSpectrum,        \* SpectrumAnalyzer.powerSpectrum
    spFrequencies,        \* SpectrumAnalyzer.frequencies
    spCalls,              \* where each calculatePowerSpectrum call stands
    spQuery,              \* the last query and its outcome
    apSamples,            \* findClosestApproach: samples
    apRate,               \* findClosestApproach: sampleRate
    apOptions,            \* findClosestApproach: options
    detection,            \* findClosestApproach: the last result
    prSamples,            \* AudioProcessor: samples
    prRate,               \* AudioProcessor: sampleRate
    processed,            \* AudioProcessor: the last call and its result
    bufSilent,            \* the caller's sample array: every sample is 0
    objects,              \* the arrays alive: the caller's and those of the last call
    handed,               \* the last call on the caller's array and what it returned
    wasmModule,           \* fft-wrapper.js (simd): wasmModule, 0 for null
    fftSetup,             \* fft-wrapper.js (simd): fftSetup
    instances,            \* the module instances the factory has made
    setups,               \* the PFFFT setups made, by setup pointer
    fftCalls              \* where each fft() call stands

calcVars == <<minReasonableSpeed, maxReasonableSpeed>>

bestArgs == <<argApproach, argRecede, argExpected>>

bestVars == <<bestArgs, best>>

combineArgs == <<anaApproach, anaRecede, anaThreshold>>

combineVars == <<combineArgs, combined>>

slicerVars == <<slLength, slRate, sliced>>

spectrumVars ==
    <<spLength, spRate, spPower, fftImplementation, powerSpectrum, spFrequencies,
      spCalls, spQuery>>

approachVars == <<apSamples, apRate, apOptions, detection>>

processorVars == <<prSamples, prRate, processed>>

memoryVars == <<bufSilent, objects, handed>>

wasmVars == <<wasmModule, fftSetup, instances, setups, fftCalls>>

vars ==
    <<calcVars, dop, bestVars, combineVars, slicerVars, analysis, spectrumVars,
      approachVars, processorVars, memoryVars, wasmVars>>

\* what the actions of one component leave alone in the others
otherThanAnalyzer == <<combineVars, slicerVars, analysis, spectrumVars,
     approachVars, processorVars, memoryVars, wasmVars>>

otherThanCombine == <<calcVars, dop, bestVars, slicerVars, analysis, spectrumVars,
     approachVars, processorVars, memoryVars, wasmVars>>

otherThanSlicer == <<calcVars, dop, bestVars, combineVars, analysis, spectrumVars,
     approachVars, processorVars, memoryVars, wasmVars>>

otherThanSpectrum ==
    <<calcVars, dop, bestVars, combineVars, slicerVars, analysis, approachVars,
      processorVars, memoryVars, wasmVars>>

otherThanApproach ==
    <<calcVars, dop, bestVars, combineVars, slicerVars, analysis, spectrumVars,
      processorVars, memoryVars, wasmVars>>

otherThanProcessor ==
    <<calcVars, dop, bestVars, combineVars, slicerVars, analysis, spectrumVars,
      approachVars, memoryVars, wasmVars>>

otherThanMemory ==
    <<calcVars, dop, bestVars, combineVars, slicerVars, analysis, spectrumVars,
      approachVars, processorVars, wasmVars>>

otherThanWasm ==
    <<calcVars, dop, bestVars, combineVars, slicerVars, analysis, spectrumVars,
      approachVars, processorVars, memoryVars>>

(***************************************************************************)
(* Arithmetic helpers                                                      *)
(***************************************************************************)
Abs(x) == IF x < 0 THEN -x ELSE x

Min2(a, b) == IF a <= b THEN a ELSE b

Max2(a, b) == IF a >= b THEN a ELSE b

RECURSIVE GCD(_, _)
GCD(a, b) == IF b = 0 THEN a ELSE GCD(b, a % b)

(***************************************************************************)
(* Speed values                                                            *)
(***************************************************************************)
soundSpeed == 343

MsToKmhTenths == 36          \* speedMs * 3.6, in tenths

\* the number n/d of the given unit, in lowest terms with d > 0
Ratio(n, d, unit) ==
    LET g == GCD(Abs(n), Abs(d))
        s == IF d < 0 THEN -1 ELSE 1
    IN  IF n = 0 THEN [dn |-> 0, ds |-> 1, unit |-> unit]
        ELSE [dn |-> s * (n \div g), ds |-> s * (d \div g), unit |-> unit]

\* the JavaScript number 0 returned by calculateSpeed for a rejected result
ZeroKmh == [dn |-> 0, ds |-> 1, unit |-> "kmh"]

ZeroMph == [dn |-> 0, ds |-> 1, unit |-> "mph"]

\* JavaScript null in a speed field
NullSpeed == [dn |-> 0, ds |-> 0, unit |-> "null"]

IsNullSpeed(v) == v.unit = "null"

IsZero(v) == v.unit # "null" /\ v.dn = 0

IsPositive(v) == v.unit # "null" /\ v.dn > 0

\* v >= M for a speed v in km/h and an integer M:
\* 343 * 3.6 * dn / ds >= M
KmhGeq(v, M) == soundSpeed * MsToKmhTenths * v.dn >= 10 * M * v.ds

\* v > M for a speed v in km/h
KmhGreater(v, M) == soundSpeed * MsToKmhTenths * v.dn > 10 * M * v.ds

\* P/Q of a Doppler ratio expressed in mph is < M, for integers P, Q > 0, M:
\* 343 * 3.6 * 0.621371 * P / Q < M, that is 7672689108 * P < M * 10^7 * Q.
\* Both sides are divided by 4 and the left factor 1918172277 is split as
\* 19181 * 10^5 + 72277 so that every product stays within 32 bits.
MphRatioLess(P, Q, M) ==
    LET X == 25 * M * Q - 19181 * P
        Y == 72277 * P
    IN  X > Y \div 100000

\* v < M and v >= M for a speed v in mph and an integer M
MphLess(v, M) == MphRatioLess(v.dn, v.ds, M)

MphGeq(v, M) == ~MphLess(v, M)

\* the same with <=: X * 10^5 >= Y
MphRatioLeq(P, Q, M) ==
    LET X == 25 * M * Q - 19181 * P
        Y == 72277 * P
    IN  X >= -((-Y) \div 100000)

MphLeq(v, M) == MphRatioLeq(v.dn, v.ds, M)

MphGreater(v, M) == ~MphLeq(v, M)

\* a < b for two speeds of the same unit
SpeedLess(a, b) == a.dn * b.ds < b.dn * a.ds

\* speedKmh * 0.621371
ToMph(v) == [dn |-> v.dn, ds |-> v.ds, unit |-> "mph"]

(***************************************************************************)
(* DopplerSpeedCalculator                                                  *)
(***************************************************************************)
NoError == "null"

\* calculateSpeed on a calculator whose limits are lo and hi; f1 + f2 > 0
calculateSpeedMut(lo, hi, f1, f2) ==
    LET speedKmh == Ratio(f1 - f2, f1 + f2, "kmh")
    IN  IF KmhGeq(speedKmh, hi + 1) \/ ~KmhGeq(speedKmh, lo)
        THEN ZeroKmh
        ELSE speedKmh

calculateSpeed(lo, hi, f1, f2) ==
    LET speedKmh == Ratio(f1 - f2, f1 + f2, "kmh")
    IN  IF KmhGeq(speedKmh, hi) \/ ~KmhGeq(speedKmh, lo)
        THEN ZeroKmh
        ELSE speedKmh

\* |f1 - f2| < 1
DifferenceTooSmall(f1, f2) == Abs(f1 - f2) < 1

calculateSpeedWithValidation(lo, hi, f1, f2) ==
    IF f1 <= 0 \/ f2 <= 0
    THEN [speedKMH |-> ZeroKmh, speedMPH |-> ZeroMph, valid |-> FALSE,
          error |-> "Invalid frequency values"]
    ELSE IF DifferenceTooSmall(f1, f2)
    THEN [speedKMH |-> ZeroKmh, speedMPH |-> ZeroMph, valid |-> FALSE,
          error |-> "Frequency difference too small"]
    ELSE LET speedKMH == calculateSpeed(lo, hi, f1, f2)
         IN  [speedKMH |-> speedKMH,
              speedMPH |-> ToMph(speedKMH),
              valid    |-> IsPositive(speedKMH),
              error    |-> IF IsZero(speedKMH)
                           THEN "Speed outside reasonable range"
                           ELSE NoError]

(***************************************************************************)
(* FrequencyMatcher                                                        *)
(***************************************************************************)
\* a candidate whose frequency field is undefined (a malformed candidate)
Undef == -1

\* the error field of a valid pair result is a number, |speedMph - anchor|;
\* it is kept as the pair (speedMph, anchor) and compared by ErrorLess
NumericError == "number"

\* result.confidence of an object that has no such property
NoConfidence == "undefined"

\* confidence: 0
ZeroConfidence == "0"

\* a result without a speed: valid false, speedMph null
NoResult(msg) ==
    [valid |-> FALSE, threw |-> FALSE, speedKmh |-> NullSpeed,
     speedMph |-> NullSpeed, approachFreq |-> 0, recedeFreq |-> 0,
     anchor |-> 0, strategy |-> "none", error |-> msg,
     confidence |-> NoConfidence]

\* an exception leaving the function: undefined.toFixed is a TypeError
Thrown == [NoResult("TypeError: toFixed of undefined") EXCEPT !.threw = TRUE]

\* |x.speedMph - x.anchor| < |y.speedMph - y.anchor| for two valid results
\* with the same anchor A, by the side of A each speed lies on; the sum of
\* the two speeds is (x.dn * y.ds + y.dn * x.ds) / (x.ds * y.ds)
ErrorLess(x, y) ==
    LET A  == x.anchor
        xs == x.speedMph
        ys == y.speedMph
        P  == xs.dn * ys.ds + ys.dn * xs.ds
        Q  == xs.ds * ys.ds
    IN  IF MphGeq(xs, A) /\ MphGeq(ys, A) THEN SpeedLess(xs, ys)
        ELSE IF MphLess(xs, A) /\ MphLess(ys, A) THEN SpeedLess(ys, xs)
        ELSE IF MphGeq(xs, A) THEN MphRatioLess(P, Q, 2 * A)
        ELSE ~MphRatioLeq(P, Q, 2 * A)

\* calculateSpeedForFrequencyPair on a matcher whose calculator has the
\* limits lo and hi; a speed of 0 from the calculator is an invalid result
calculateSpeedForFrequencyPair(lo, hi, approachFreq, recedeFreq, expectedSpeedMph) ==
    LET speedKmh == calculateSpeed(lo, hi, approachFreq, recedeFreq)
    IN  IF IsZero(speedKmh)
        THEN [valid |-> FALSE, threw |-> FALSE, speedKmh |-> ZeroKmh,
              speedMph |-> ZeroMph, approachFreq |-> approachFreq,
              recedeFreq |-> recedeFreq, anchor |-> expectedSpeedMph,
              strategy |-> "none", error |-> "Invalid speed calculation",
              confidence |-> NoConfidence]
        ELSE [valid |-> TRUE, threw |-> FALSE, speedKmh |-> speedKmh,
              speedMph |-> ToMph(speedKmh), approachFreq |-> approachFreq,
              recedeFreq |-> recedeFreq, anchor |-> expectedSpeedMph,
              strategy |-> "none", error |-> NumericError,
              confidence |-> NoConfidence]

\* the nested loops of findOptimalSpeedCalculation from pair number k on,
\* pairs numbered in iteration order; bestResult is null while not valid
RECURSIVE OptimalFrom(_, _, _, _, _, _, _)
OptimalFrom(lo, hi, approachFrequencies, recedeFrequencies, expectedSpeedMph, k, bestResult) ==
    LET nr == Len(recedeFrequencies)
    IN  IF k > Len(approachFrequencies) * nr THEN bestResult
        ELSE LET approachFreq == approachFrequencies[((k - 1) \div nr) + 1]
                 recedeFreq == recedeFrequencies[((k - 1) % nr) + 1]
             IN  IF approachFreq = Undef \/ recedeFreq = Undef THEN Thrown
                 ELSE LET result == calculateSpeedForFrequencyPair(lo, hi,
                                        approachFreq, recedeFreq, expectedSpeedMph)
                          better == result.valid /\
                                    (~bestResult.valid \/ ErrorLess(result, bestResult))
                      IN  OptimalFrom(lo, hi, approachFrequencies,
                              recedeFrequencies, expectedSpeedMph, k + 1,
                              IF better THEN result ELSE bestResult)

Reversed(s) == [i \in 1..Len(s) |-> s[Len(s) + 1 - i]]

\* a matcher that visits the pairs in the opposite order
findOptimalSpeedCalculationMut(lo, hi, approachFrequencies, recedeFrequencies, expectedSpeedMph) ==
    OptimalFrom(lo, hi, Reversed(approachFrequencies), Reversed(recedeFrequencies),
                expectedSpeedMph, 1, NoResult("No valid frequency pairs found"))

findOptimalSpeedCalculation(lo, hi, approachFrequencies, recedeFrequencies, expectedSpeedMph) ==
    OptimalFrom(lo, hi, approachFrequencies, recedeFrequencies, expectedSpeedMph,
                1, NoResult("No valid frequency pairs found"))

(***************************************************************************)
(* AudioAnalyzer.findBestSpeedCalculation and its three tiers              *)
(***************************************************************************)
\* expectedSpeed || d : null and 0 are both falsy; null is modelled as 0
OrDefault(expectedSpeed, d) == IF expectedSpeed # 0 THEN expectedSpeed ELSE d

PrimaryDefaultExpected == 30

SecondaryDefaultExpected == 50

SecondaryMaxSpeed == 500

TertiaryMaxSpeed == 1000

TertiaryTopCount == 10

ReasonableMinMph == 10

ReasonableMaxMph == 100

\* slice(0, n)
Take(s, n) == SubSeq(s, 1, Min2(n, Len(s)))

\* the Primary tier: the analyzer's own matcher, whose calculator has the
\* limits lo and hi
tryPrimaryStrategy(lo, hi, approachFrequencies, recedeFrequencies, expectedSpeed) ==
    LET primaryResult == findOptimalSpeedCalculation(lo, hi, approachFrequencies,
                             recedeFrequencies,
                             OrDefault(expectedSpeed, PrimaryDefaultExpected))
    IN  IF primaryResult.valid
        THEN [primaryResult EXCEPT !.strategy = "Primary"]
        ELSE primaryResult

\* the Secondary tier: a fresh calculator with limits (0, 500); every
\* exception is caught and becomes { valid: false }
trySecondaryStrategy(approachFrequencies, recedeFrequencies, expectedSpeed) ==
    LET matchResult == findOptimalSpeedCalculation(0, SecondaryMaxSpeed,
                           approachFrequencies, recedeFrequencies,
                           OrDefault(expectedSpeed, SecondaryDefaultExpected))
    IN  IF matchResult.threw THEN NoResult(NoError)
        ELSE IF matchResult.valid
        THEN [matchResult EXCEPT !.strategy = "Secondary"]
        ELSE NoResult(NoError)

\* the speed the Tertiary tier computes for one ordered pair; an undefined
\* frequency gives NaN, which fails speedKmh > 0
TertiaryCandidate(freq1, freq2, expectedSpeed) ==
    IF freq1 = Undef \/ freq2 = Undef THEN NoResult(NoError)
    ELSE LET speedKmh == calculateSpeed(0, TertiaryMaxSpeed, freq1, freq2)
         IN  IF IsPositive(speedKmh) /\ ~KmhGeq(speedKmh, TertiaryMaxSpeed)
             THEN [valid |-> TRUE, threw |-> FALSE, speedKmh |-> speedKmh,
                   speedMph |-> ToMph(speedKmh), approachFreq |-> freq1,
                   recedeFreq |-> freq2, anchor |-> expectedSpeed,
                   strategy |-> "Tertiary", error |-> NumericError,
                   confidence |-> NoConfidence]
             ELSE NoResult(NoError)

\* error < bestError || !bestResult, where error is 0 without expectedSpeed
TertiaryBetter(cand, bestResult) ==
    \/ ~bestResult.valid
    \/ cand.anchor # 0 /\ ErrorLess(cand, bestResult)

\* the loops of tryTertiaryStrategy from step k on: step 2i-1 is pair i in
\* the given order and step 2i the same pair reversed
RECURSIVE TertiaryFrom(_, _, _, _, _)
TertiaryFrom(approachTop, recedeTop, expectedSpeed, k, bestResult) ==
    LET nr == Len(recedeTop)
        i  == (k + 1) \div 2
    IN  IF k > 2 * Len(approachTop) * nr THEN bestResult
        ELSE LET approachFreq == approachTop[((i - 1) \div nr) + 1]
                 recedeFreq == recedeTop[((i - 1) % nr) + 1]
                 cand == IF k % 2 = 1
                         THEN TertiaryCandidate(approachFreq, recedeFreq, expectedSpeed)
                         ELSE TertiaryCandidate(recedeFreq, approachFreq, expectedSpeed)
             IN  TertiaryFrom(approachTop, recedeTop, expectedSpeed, k + 1,
                     IF cand.valid /\ TertiaryBetter(cand, bestResult)
                     THEN cand ELSE bestResult)

tryTertiaryStrategy(approachFrequencies, recedeFrequencies, expectedSpeed) ==
    TertiaryFrom(Take(approachFrequencies, TertiaryTopCount),
                 Take(recedeFrequencies, TertiaryTopCount),
                 expectedSpeed, 1, NoResult(NoError))

\* s.speedMph >= 10 && s.speedMph <= 100
IsReasonable(s) ==
    MphGeq(s.speedMph, ReasonableMinMph) /\ MphLeq(s.speedMph, ReasonableMaxMph)

\* the callback of reduce: current.speedMph < best.speedMph ? current : best
LowerSpeedMut(bestSoFar, current) ==
    IF ~SpeedLess(bestSoFar.speedMph, current.speedMph) THEN current ELSE bestSoFar

LowerSpeed(bestSoFar, current) ==
    IF SpeedLess(current.speedMph, bestSoFar.speedMph) THEN current ELSE bestSoFar

\* strategies.reduce(callback) on a non-empty array
RECURSIVE ReduceFrom(_, _, _)
ReduceFrom(strategies, k, acc) ==
    IF k > Len(strategies) THEN acc
    ELSE ReduceFrom(strategies, k + 1, LowerSpeed(acc, strategies[k]))

Reduce(strategies) == ReduceFrom(strategies, 2, strategies[1])

\* the valid tier results in the order they are pushed
Strategies(primaryResult, secondaryResult, tertiaryResult) ==
    (IF primaryResult.valid THEN <<primaryResult>> ELSE <<>>) \o
    (IF secondaryResult.valid THEN <<secondaryResult>> ELSE <<>>) \o
    (IF tertiaryResult.valid THEN <<tertiaryResult>> ELSE <<>>)

\* lines 493-525: the selection among the collected strategies
selectBestResult(strategies) ==
    IF Len(strategies) = 0
    THEN [NoResult("No valid frequency pairs found")
             EXCEPT !.confidence = ZeroConfidence]
    ELSE LET reasonableStrategies == SelectSeq(strategies, IsReasonable)
         IN  IF Len(reasonableStrategies) > 0
             THEN Reduce(reasonableStrategies)
             ELSE Reduce(strategies)

\* the result of the catch block: error.message, speedMph null, confidence 0
CaughtResult(thrown) ==
    [thrown EXCEPT !.threw = FALSE, !.confidence = ZeroConfidence]

\* a tier that was not reached because an earlier statement threw
NotRun == NoResult("not run")

\* findBestSpeedCalculation on an analyzer whose calculator has the limits
\* lo and hi: the three tier results and the returned object
findBestSpeedCalculation(lo, hi, approachFrequencies, recedeFrequencies, expectedSpeed) ==
    LET primaryResult == tryPrimaryStrategy(lo, hi, approachFrequencies,
                             recedeFrequencies, expectedSpeed)
        secondaryResult == trySecondaryStrategy(approachFrequencies,
                               recedeFrequencies, expectedSpeed)
        tertiaryResult == tryTertiaryStrategy(approachFrequencies,
                              recedeFrequencies, expectedSpeed)
    IN  IF primaryResult.threw
        THEN [primary |-> primaryResult, secondary |-> NotRun,
              tertiary |-> NotRun, result |-> CaughtResult(primaryResult)]
        ELSE [primary |-> primaryResult, secondary |-> secondaryResult,
              tertiary |-> tertiaryResult,
              result |-> selectBestResult(Strategies(primaryResult,
                             secondaryResult, tertiaryResult))]

\* a calculator object, as the constructor leaves it
newCalculator == [minReasonableSpeed |-> 0, maxReasonableSpeed |-> 1000]

\* calculator.setSpeedLimits(minSpeed, maxSpeed): the object afterwards
setSpeedLimits(calculator, minSpeed, maxSpeed) ==
    [calculator EXCEPT !.minReasonableSpeed = minSpeed,
                       !.maxReasonableSpeed = maxSpeed]

\* the tiers configure the analyzer's own calculator
tierObjectsMut(own, approachFrequencies, recedeFrequencies) ==
    [own |-> setSpeedLimits(own, 0, SecondaryMaxSpeed),
     lenient |-> setSpeedLimits(own, 0, SecondaryMaxSpeed),
     veryLenient |-> setSpeedLimits(own, 0, TertiaryMaxSpeed),
     approachFrequencies |-> approachFrequencies,
     recedeFrequencies |-> recedeFrequencies]

\* the objects after the three tiers ran: Secondary and Tertiary each
\* construct a calculator of their own and set its limits; the lists are
\* only read, and slice(0, 10) copies
tierObjects(own, approachFrequencies, recedeFrequencies) ==
    [own |-> own,
     lenient |-> setSpeedLimits(newCalculator, 0, SecondaryMaxSpeed),
     veryLenient |-> setSpeedLimits(newCalculator, 0, TertiaryMaxSpeed),
     approachFrequencies |-> approachFrequencies,
     recedeFrequencies |-> recedeFrequencies]

\* the record of the last findBestSpeedCalculation call: none yet
NoBest == [called |-> FALSE, lo |-> 0, hi |-> 0,
           approachFrequencies |-> <<>>, recedeFrequencies |-> <<>>,
           primary |-> NotRun, secondary |-> NotRun, tertiary |-> NotRun,
           result |-> NotRun]

(***************************************************************************)
(* FrequencyAnalysis: rankFrequencies, calculateSpeedConfidence and        *)
(* combineAnalyses.  A power is a whole number of units, a confidence a    *)
(* fraction [n, d] in lowest terms, a section quality a whole percentage.  *)
(***************************************************************************)
Frac(n, d) ==
    LET g == GCD(Abs(n), Abs(d))
    IN  IF n = 0 THEN [n |-> 0, d |-> 1] ELSE [n |-> n \div g, d |-> d \div g]

FracLess(x, y) == x.n * y.d < y.n * x.d

FracMin(x, y) == IF FracLess(y, x) THEN y ELSE x

FracMax(x, y) == IF FracLess(x, y) THEN y ELSE x

\* Math.max(...frequencies.map(f => f.power)), 0 standing for an empty list
RECURSIVE MaxPowerFrom(_, _)
MaxPowerFrom(frequencies, k) ==
    IF k > Len(frequencies) THEN 0
    ELSE Max2(frequencies[k].power, MaxPowerFrom(frequencies, k + 1))

\* frequencyBonus in hundredths
frequencyBonus(frequency) ==
    IF frequency >= 200 /\ frequency <= 2000 THEN 10
    ELSE IF frequency >= 100 /\ frequency <= 5000 THEN 5
    ELSE 0

\* rankingScore multiplied by 100 * n * maxPower, for the candidate at the
\* 0-based position index of a list of n; with maxPower 0 the score is NaN
\* and every comparison of the sort yields "equal", as with equal keys
rankingKey(frequencies, index) ==
    LET n == Len(frequencies)
        maxPower == MaxPowerFrom(frequencies, 1)
        freq == frequencies[index + 1]
    IN  100 * n * freq.power + 20 * (n - index) * maxPower
            + frequencyBonus(freq.frequency) * n * maxPower

\* the object rankFrequencies builds for the candidate at position index;
\* powerScore is power / maxPower, and 0 when that is 0 or NaN (both falsy)
rankedCandidate(frequencies, index) ==
    LET maxPower == MaxPowerFrom(frequencies, 1)
        freq == frequencies[index + 1]
    IN  [frequency |-> freq.frequency, power |-> freq.power,
         powerScore |-> IF maxPower = 0 THEN Frac(0, 1)
                        ELSE Frac(freq.power, maxPower),
         key |-> rankingKey(frequencies, index),
         rank |-> index + 1]

\* a stable insertion of x into a list sorted by descending key
RECURSIVE InsertByKey(_, _)
InsertByKey(sorted, x) ==
    IF Len(sorted) = 0 THEN <<x>>
    ELSE IF Head(sorted).key < x.key THEN <<x>> \o sorted
    ELSE <<Head(sorted)>> \o InsertByKey(Tail(sorted), x)

\* Array.prototype.sort((a, b) => b.key - a.key), which is stable
RECURSIVE SortByKeyFrom(_, _, _)
SortByKeyFrom(list, k, sorted) ==
    IF k > Len(list) THEN sorted
    ELSE SortByKeyFrom(list, k + 1, InsertByKey(sorted, list[k]))

SortByKey(list) == SortByKeyFrom(list, 1, <<>>)

rankFrequencies(frequencies) ==
    SortByKey([i \in 1..Len(frequencies) |-> rankedCandidate(frequencies, i - 1)])

\* the limits of the calculator FrequencyAnalysis constructs for itself
DefaultMinSpeed == 0

DefaultMaxSpeed == 1000

DefaultConfidenceThreshold == 30      \* options.confidenceThreshold || 0.3

\* approachFreq.powerScore || 0.5
PowerScoreOrHalf(candidate) ==
    IF candidate.powerScore.n = 0 THEN Frac(1, 2) ELSE candidate.powerScore

\* speedConfidence * 4000 for a speed in km/h (343 * 3.6 * dn / ds):
\* speed / 5 below 5, max(0.2, 1 - (speed - 100) / 100) above 100, else 1
SpeedTerm(speed) ==
    IF ~KmhGeq(speed, 5) THEN Frac(987840 * speed.dn, speed.ds)
    ELSE IF KmhGreater(speed, 100)
    THEN FracMax(Frac(800, 1), Frac(8000 * speed.ds - 49392 * speed.dn, speed.ds))
    ELSE Frac(4000, 1)

\* separationConfidence * 3000: min(1, separation * 10)
SeparationTerm(approachFrequency, recedeFrequency) ==
    FracMin(Frac(3000, 1),
            Frac(30000 * (approachFrequency - recedeFrequency), recedeFrequency))

\* Math.max(0, rankingConfidence) * 2000
RankingTerm(approachRank, recedeRank) ==
    Max2(0, 200 * (12 - approachRank - recedeRank))

\* calculateSpeedConfidence: the weights 0.3, 0.25, 0.2, 0.15 and 0.1 are
\* applied on the common scale 20000; the qualities are percentages
calculateSpeedConfidence(approachFreq, recedeFreq, speed, approachQuality, recedeQuality) ==
    LET p == FracMin(PowerScoreOrHalf(approachFreq), PowerScoreOrHalf(recedeFreq))
        s == SpeedTerm(speed)
        e == SeparationTerm(approachFreq.frequency, recedeFreq.frequency)
        D == p.d * s.d * e.d
        N == 6000 * p.n * (s.d * e.d) + s.n * (p.d * e.d) + e.n * (p.d * s.d)
               + (25 * (approachQuality + recedeQuality)
                    + RankingTerm(approachFreq.rank, recedeFreq.rank)) * D
        confidence == Frac(N, 20000 * D)
    IN  FracMax(Frac(0, 1), FracMin(Frac(1, 1), confidence))

\* a threshold test that keeps every pair of positive confidence
MeetsThresholdMut(confidence, confidenceThreshold) == confidence.n > 0

\* speedConfidence >= this.confidenceThreshold, the threshold in percent
MeetsThreshold(confidence, confidenceThreshold) ==
    100 * confidence.n >= confidenceThreshold * confidence.d

\* the entry pushed for one pair
SpeedCalculation(approachFreq, recedeFreq, speed, confidence) ==
    [approachFreq |-> approachFreq.frequency, recedeFreq |-> recedeFreq.frequency,
     approachRank |-> approachFreq.rank, recedeRank |-> recedeFreq.rank,
     speed |-> speed, confidence |-> confidence]

\* the loops of combineAnalyses from pair number k on
RECURSIVE CombineFrom(_, _, _, _, _, _, _)
CombineFrom(approachFreqs, recedeFreqs, approachQuality, recedeQuality, confidenceThreshold, k, speedCalculations) ==
    LET nr == Len(recedeFreqs)
    IN  IF k > Len(approachFreqs) * nr THEN speedCalculations
        ELSE LET approachFreq == approachFreqs[((k - 1) \div nr) + 1]
                 recedeFreq == recedeFreqs[((k - 1) % nr) + 1]
                 speed == calculateSpeed(DefaultMinSpeed, DefaultMaxSpeed,
                              approachFreq.frequency, recedeFreq.frequency)
                 speedConfidence == calculateSpeedConfidence(approachFreq,
                              recedeFreq, speed, approachQuality, recedeQuality)
                 pushed == /\ approachFreq.frequency > recedeFreq.frequency
                           /\ MeetsThreshold(speedConfidence, confidenceThreshold)
             IN  CombineFrom(approachFreqs, recedeFreqs, approachQuality,
                     recedeQuality, confidenceThreshold, k + 1,
                     IF pushed
                     THEN Append(speedCalculations,
                              SpeedCalculation(approachFreq, recedeFreq, speed,
                                               speedConfidence))
                     ELSE speedCalculations)

\* a stable insertion of x into a list sorted by descending confidence
RECURSIVE InsertByConfidence(_, _)
InsertByConfidence(sorted, x) ==
    IF Len(sorted) = 0 THEN <<x>>
    ELSE IF FracLess(Head(sorted).confidence, x.confidence) THEN <<x>> \o sorted
    ELSE <<Head(sorted)>> \o InsertByConfidence(Tail(sorted), x)

\* speedCalculations.sort((a, b) => b.confidence - a.confidence)
RECURSIVE SortByConfidenceFrom(_, _, _)
SortByConfidenceFrom(list, k, sorted) ==
    IF k > Len(list) THEN sorted
    ELSE SortByConfidenceFrom(list, k + 1, InsertByConfidence(sorted, list[k]))

SortByConfidence(list) == SortByConfidenceFrom(list, 1, <<>>)

TopCombineCount == 5

\* bestSpeed: null
NoSpeedCalculation ==
    [approachFreq |-> 0, recedeFreq |-> 0, approachRank |-> 0, recedeRank |-> 0,
     speed |-> NullSpeed, confidence |-> Frac(0, 1)]

\* an analysis is [valid, frequencies, quality]; quality stands for
\* qualityMetrics.overallConfidence in percent
combineAnalyses(approachAnalysis, recedeAnalysis, confidenceThreshold) ==
    IF ~approachAnalysis.valid \/ ~recedeAnalysis.valid
    THEN [valid |-> FALSE, error |-> "One or both sections invalid",
          speedCalculations |-> <<>>, bestSpeed |-> NoSpeedCalculation,
          hasBest |-> FALSE]
    ELSE LET speedCalculations ==
                 SortByConfidence(CombineFrom(
                     Take(approachAnalysis.frequencies, TopCombineCount),
                     Take(recedeAnalysis.frequencies, TopCombineCount),
                     approachAnalysis.quality, recedeAnalysis.quality,
                     confidenceThreshold, 1, <<>>))
         IN  [valid |-> Len(speedCalculations) > 0, error |-> NoError,
              speedCalculations |-> speedCalculations,
              bestSpeed |-> IF Len(speedCalculations) > 0
                            THEN speedCalculations[1]
                            ELSE NoSpeedCalculation,
              hasBest |-> Len(speedCalculations) > 0]

(***************************************************************************)
(* AudioSlicer.  A buffer is represented by its length; a section by the   *)
(* range [from, to) of buffer indices it was sliced from.                  *)
(***************************************************************************)
minSectionSamples == 2048

ShortFileMinSamples == 1024

FallbackMinSamples == 512

ShortFileSeconds == 5

\* Array.prototype.slice(start, end) on an array of the given length
Slice(length, start, end) ==
    LET from == IF start < 0 THEN Max2(length + start, 0) ELSE Min2(start, length)
        to   == IF end < 0 THEN Max2(length + end, 0) ELSE Min2(end, length)
    IN  [from |-> from, to |-> Max2(from, to)]

\* samples.slice(start)
SliceFrom(length, start) == Slice(length, start, length)

SectionLength(section) == section.to - section.from

\* Math.floor(Math.min(0.3, duration * 0.2) * sampleRate) with duration =
\* length / sampleRate: a fifth of the buffer, at most 0.3 seconds
marginSamples(length, sampleRate) ==
    IF 2 * length <= 3 * sampleRate
    THEN length \div 5
    ELSE (3 * sampleRate) \div 10

extractSections(length, sampleRate, closestApproachIndex) ==
    LET approachEnd == Max2(closestApproachIndex - marginSamples(length, sampleRate),
                            minSectionSamples)
        recedeStart == Min2(closestApproachIndex + marginSamples(length, sampleRate),
                            length - minSectionSamples)
    IN  [approaching |-> Slice(length, 0, approachEnd),
         receding |-> SliceFrom(length, recedeStart),
         strategy |-> "closest_approach"]

\* the first and the last quarter: slice(0, q) and slice(-q)
extractShortFileSections(length) ==
    LET quarterLength == length \div 4
    IN  [approaching |-> Slice(length, 0, quarterLength),
         receding |-> SliceFrom(length, -quarterLength),
         strategy |-> "short_file_quarters"]

\* the fallback object built inside extractBestSections
SimpleQuarters(length) ==
    LET quarterLength == length \div 4
    IN  [approaching |-> Slice(length, 0, quarterLength),
         receding |-> SliceFrom(length, -quarterLength),
         strategy |-> "simple_quarters"]

\* validateSections: one error per section shorter than minSamples
validateSections(sections, minSamples) ==
    LET approachShort == SectionLength(sections.approaching) < minSamples
        recedeShort == SectionLength(sections.receding) < minSamples
    IN  [isValid |-> ~approachShort /\ ~recedeShort,
         errors |-> (IF approachShort THEN 1 ELSE 0) + (IF recedeShort THEN 1 ELSE 0),
         minSamples |-> minSamples]

\* closestApproachIndex = null
NoIndex == -1000000

\* one entry of the strategies array; confidence in percent
StrategyEntry(name, sections, minSamples, validConfidence, invalidConfidence) ==
    LET validation == validateSections(sections, minSamples)
    IN  [name |-> name, sections |-> sections, validation |-> validation,
         confidence |-> IF validation.isValid THEN validConfidence
                        ELSE invalidConfidence]

\* the strategies array in the order the entries are pushed
Candidates(length, sampleRate, closestApproachIndex) ==
    (IF closestApproachIndex # NoIndex /\ closestApproachIndex > 0
          /\ closestApproachIndex < length
     THEN <<StrategyEntry("closest_approach",
                extractSections(length, sampleRate, closestApproachIndex),
                minSectionSamples, 90, 10)>>
     ELSE <<>>) \o
    (IF length < ShortFileSeconds * sampleRate
     THEN <<StrategyEntry("short_file_quarters", extractShortFileSections(length),
                ShortFileMinSamples, 70, 20)>>
     ELSE <<>>) \o
    <<StrategyEntry("simple_quarters", SimpleQuarters(length),
          FallbackMinSamples, 50, 10)>>

IsValidEntry(s) == s.validation.isValid

\* a stable insertion of x into a list sorted by descending confidence
RECURSIVE InsertStrategy(_, _)
InsertStrategy(sorted, x) ==
    IF Len(sorted) = 0 THEN <<x>>
    ELSE IF Head(sorted).confidence < x.confidence THEN <<x>> \o sorted
    ELSE <<Head(sorted)>> \o InsertStrategy(Tail(sorted), x)

\* strategies.sort((a, b) => b.confidence - a.confidence)
RECURSIVE SortStrategiesFrom(_, _, _)
SortStrategiesFrom(list, k, sorted) ==
    IF k > Len(list) THEN sorted
    ELSE SortStrategiesFrom(list, k + 1, InsertStrategy(sorted, list[k]))

SortStrategies(list) == SortStrategiesFrom(list, 1, <<>>)

\* lines 226-229: the best valid strategy, or the best one if none is valid
SelectBestStrategyMut(strategies) ==
    LET validStrategies == SelectSeq(strategies, IsValidEntry)
    IN  IF Len(validStrategies) > 0
        THEN SortStrategies(validStrategies)[Len(validStrategies)]
        ELSE SortStrategies(strategies)[Len(strategies)]

SelectBestStrategy(strategies) ==
    LET validStrategies == SelectSeq(strategies, IsValidEntry)
    IN  IF Len(validStrategies) > 0
        THEN SortStrategies(validStrategies)[1]
        ELSE SortStrategies(strategies)[1]

extractBestSections(length, sampleRate, closestApproachIndex) ==
    LET strategies == Candidates(length, sampleRate, closestApproachIndex)
        bestStrategy == SelectBestStrategy(strategies)
    IN  [approaching |-> bestStrategy.sections.approaching,
         receding |-> bestStrategy.sections.receding,
         strategy |-> bestStrategy.sections.strategy,
         selectedStrategy |-> bestStrategy.name,
         confidence |-> bestStrategy.confidence,
         validation |-> bestStrategy.validation,
         strategies |-> strategies]

\* extractTimeSections for timeRanges = { approaching: [..], receding: [..] };
\* a range is given by its two sample positions, Math.floor(time * sampleRate)
extractTimeSections(length, timeRanges) ==
    [approaching |-> Slice(length, Max2(0, timeRanges.approaching[1]),
                           Min2(length, timeRanges.approaching[2])),
     receding |-> Slice(length, Max2(0, timeRanges.receding[1]),
                        Min2(length, timeRanges.receding[2])),
     strategy |-> "time_based"]

(***************************************************************************)
(* AudioAnalyzer.extractOptimalSections                                    *)
(***************************************************************************)
\* approachDetection = null (detection disabled)
NoDetection == [present |-> FALSE, found |-> FALSE, closestApproachIndex |-> NoIndex]

\* config.timeRanges absent
NoTimeRanges == [approaching |-> <<0, 0>>, receding |-> <<0, 0>>, given |-> FALSE]

\* a sectioning object that is not the result of extractBestSections has
\* no selectedStrategy, confidence or strategies
PlainSectioning(sections) ==
    [approaching |-> sections.approaching, receding |-> sections.receding,
     strategy |-> sections.strategy, selectedStrategy |-> "none",
     confidence |-> 0,
     validation |-> validateSections(sections, minSectionSamples),
     strategies |-> <<>>]

\* the switch on config.sectioningStrategy
chooseSectioning(length, sampleRate, approachDetection, sectioningStrategy, timeRanges) ==
    CASE sectioningStrategy = "closest_approach" ->
            IF approachDetection.present /\ approachDetection.found
            THEN PlainSectioning(extractSections(length, sampleRate,
                                     approachDetection.closestApproachIndex))
            ELSE PlainSectioning(extractShortFileSections(length))
      [] sectioningStrategy = "quarters" ->
            PlainSectioning(extractShortFileSections(length))
      [] sectioningStrategy = "time_based" ->
            IF timeRanges.given
            THEN PlainSectioning(extractTimeSections(length, timeRanges))
            ELSE PlainSectioning(extractShortFileSections(length))
      [] OTHER ->
            extractBestSections(length, sampleRate,
                IF approachDetection.present /\ approachDetection.found
                THEN approachDetection.closestApproachIndex ELSE NoIndex)

\* the sectioning with validation replaced by validateSections(sectioning)
extractOptimalSectionsMut(length, sampleRate, approachDetection, sectioningStrategy, timeRanges) ==
    chooseSectioning(length, sampleRate, approachDetection, sectioningStrategy,
                     timeRanges)

extractOptimalSections(length, sampleRate, approachDetection, sectioningStrategy, timeRanges) ==
    LET sectioning == chooseSectioning(length, sampleRate, approachDetection,
                                       sectioningStrategy, timeRanges)
    IN  [sectioning EXCEPT
            !.validation = validateSections(sectioning, minSectionSamples)]

(***************************************************************************)
(* SpeedAnalyzer.extractApproachSections: two seconds on either side       *)
(***************************************************************************)
extractApproachSections(length, sampleRate, closestApproachIndex) ==
    LET sectionSamples == 2 * sampleRate
        approachStart == Max2(0, closestApproachIndex - sectionSamples * 2)
        approachEnd == Max2(approachStart + sectionSamples,
                            closestApproachIndex - sectionSamples \div 2)
        recedeStart == Min2(length, closestApproachIndex + sectionSamples \div 2)
        recedeEnd == Min2(length, recedeStart + sectionSamples)
    IN  [approaching |-> Slice(length, approachStart, approachEnd),
         receding |-> Slice(length, recedeStart, recedeEnd)]

\* AudioAnalyzer.extractSimpleSections: slice(0, q) and slice(totalSamples - q)
extractSimpleSections(totalSamples) ==
    LET quarterLength == totalSamples \div 4
    IN  [approaching |-> Slice(totalSamples, 0, quarterLength),
         receding |-> SliceFrom(totalSamples, totalSamples - quarterLength)]

(***************************************************************************)
(* AudioAnalyzer.extractSections                                           *)
(***************************************************************************)
\* ApproachDetector.isShortFile(duration): duration < 2.0
isShortFile(length, sampleRate) == length < 2 * sampleRate

DetectionWindow == 2048

\* the indices ApproachDetector.detectClosestApproach(samples) can return:
\* 0 when no window has positive energy or the buffer is shorter than one
\* window, otherwise the middle of a window starting at a multiple of 512
detectClosestApproach(length) ==
    {0} \cup {i + DetectionWindow \div 2 :
                 i \in {j \in 0 .. length - DetectionWindow :
                           j % (DetectionWindow \div 4) = 0}}

\* if (object): an object is truthy whatever its fields hold
Truthy(object) == TRUE

Tagged(sections, sectioningMethod) ==
    [approaching |-> sections.approaching, receding |-> sections.receding,
     sectioningMethod |-> sectioningMethod]

analyzerExtractSections(length, sampleRate, strategy, closestApproachIndex) ==
    IF strategy = "peak_rms_energy"
    THEN IF isShortFile(length, sampleRate)
         THEN Tagged(extractShortFileSections(length), "quarters")
         ELSE LET sections == extractSections(length, sampleRate,
                                              closestApproachIndex)
              IN  IF Truthy(validateSections(sections, minSectionSamples))
                  THEN Tagged(sections, "peak_rms_energy")
                  ELSE Tagged(extractSimpleSections(length), "quarters")
    ELSE Tagged(extractSimpleSections(length), "quarters")

(***************************************************************************)
(* ApproachDetector.findClosestApproach: the energy profile has one entry  *)
(* per index from halfWindow up to length - halfWindow - 1, a peak is an   *)
(* interior entry of the profile, and the sample values decide which       *)
(***************************************************************************)
\* Math.floor(windowSize * sampleRate) with windowSize = 0.1
windowSamples(sampleRate) == sampleRate \div 10

halfWindow(sampleRate) == windowSamples(sampleRate) \div 2

\* energyProfile.length
ProfileLength(length, sampleRate) ==
    Max2(0, length - 2 * halfWindow(sampleRate))

\* selectClosestApproachPeak with no peaks
NoPeakDetection(length, sampleRate) ==
    [present |-> TRUE, found |-> FALSE,
     closestApproachIndex |-> ProfileLength(length, sampleRate) \div 2]

\* the indices a peak of the profile can have
PeakIndices(length, sampleRate) ==
    IF ProfileLength(length, sampleRate) < 3 THEN {}
    ELSE halfWindow(sampleRate) + 1 .. length - halfWindow(sampleRate) - 2

(***************************************************************************)
(* FrequencyAnalysis.analyzeSingleSection: the spectrum analyzer either    *)
(* delivers a number of ranked frequencies or throws, which is caught      *)
(***************************************************************************)
SingleSectionMinSamples == 1024

InvalidSection(msg) == [valid |-> FALSE, error |-> msg, frequencies |-> 0]

analyzeSingleSection(sectionLength, analyzer) ==
    IF sectionLength < SingleSectionMinSamples
    THEN InvalidSection("Section too short")
    ELSE IF analyzer.threw
         THEN InvalidSection("analyzer error")
         ELSE [valid |-> TRUE, error |-> "", frequencies |-> analyzer.frequencies]

\* analyzeDualSections: approach first, then recede
analyzeDualSections(sectioning, approachAnalyzer, recedeAnalyzer) ==
    [approach |-> analyzeSingleSection(SectionLength(sectioning.approaching),
                                       approachAnalyzer),
     recede |-> analyzeSingleSection(SectionLength(sectioning.receding),
                                     recedeAnalyzer)]

(***************************************************************************)
(* AudioAnalyzer.generateDiagnostics: the number of issues pushed, which   *)
(* is also the number of recommendations pushed                            *)
(***************************************************************************)
Count(condition) == IF condition THEN 1 ELSE 0

generateDiagnostics(dualAnalysis, sectioning, approachDetection) ==
    LET bothValid == dualAnalysis.approach.valid /\ dualAnalysis.recede.valid
        pushed ==
            Count(~sectioning.validation.isValid)
          + Count(~dualAnalysis.approach.valid)
          + Count(~dualAnalysis.recede.valid)
          + Count(bothValid /\ dualAnalysis.approach.frequencies = 0)
          + Count(bothValid /\ dualAnalysis.recede.frequencies = 0)
          + Count(bothValid /\ dualAnalysis.approach.frequencies > 0
                            /\ dualAnalysis.recede.frequencies > 0)
          + Count(approachDetection.present /\ ~approachDetection.found)
    IN  [issues |-> pushed, recommendations |-> pushed]

(***************************************************************************)
(* AudioAnalyzer.analyzeAudioForSpeed                                      *)
(***************************************************************************)
\* a result object of analyzeAudioForSpeed; threw marks an exception that
\* leaves the function instead of a result
AnalysisResult(success, error, stage) ==
    [threw |-> FALSE, success |-> success, error |-> error, stage |-> stage,
     hasDiagnostics |-> FALSE, issues |-> 0, recommendations |-> 0]

\* speedResults = null
NoSpeedResults == [hasBestMatch |-> FALSE]

compileFinalResults(speedResults, dualAnalysis, sectioning, approachDetection) ==
    IF ~speedResults.hasBestMatch
    THEN LET diagnostics == generateDiagnostics(dualAnalysis, sectioning,
                                                approachDetection)
         IN  [AnalysisResult(FALSE, "No valid speed calculations found", "compile")
                 EXCEPT !.hasDiagnostics = TRUE,
                        !.issues = diagnostics.issues,
                        !.recommendations = diagnostics.recommendations]
    ELSE AnalysisResult(TRUE, "", "compile")

\* an exception raised in a stage, on its way out of the try block
StageThrown(msg, stage) ==
    [AnalysisResult(FALSE, msg, stage) EXCEPT !.threw = TRUE]

\* the catch block keeps the exception inside
CaughtAnalysisMut(thrown) == thrown

\* the catch block: { success: false, error: error.message, processingTime }
CaughtAnalysis(thrown) == [thrown EXCEPT !.threw = FALSE]

\* the steps after approach detection; FrequencyMatcher defines neither
\* findMatchesMultiStrategy nor findBestMatches, so step 4 raises a
\* TypeError whenever both section analyses are valid
analyzeFromSections(length, sampleRate, config, approachDetection, approachAnalyzer, recedeAnalyzer) ==
    LET sectioning == extractOptimalSections(length, sampleRate, approachDetection,
                          config.sectioningStrategy, config.timeRanges)
        dualAnalysis == analyzeDualSections(sectioning, approachAnalyzer,
                                            recedeAnalyzer)
    IN  IF ~sectioning.validation.isValid
        THEN AnalysisResult(FALSE, "Invalid audio sectioning", "sectioning")
        ELSE IF dualAnalysis.approach.valid /\ dualAnalysis.recede.valid
             THEN CaughtAnalysis(StageThrown(
                      IF config.multiStrategy
                      THEN "findMatchesMultiStrategy is not a function"
                      ELSE "findBestMatches is not a function", "match"))
             ELSE compileFinalResults(NoSpeedResults, dualAnalysis, sectioning,
                                      approachDetection)

\* config.approachDetection is "off", "on" or "null options"; destructuring
\* approachOptions = null raises a TypeError in findClosestApproach
analyzeAudioForSpeed(length, sampleRate, config, detected, approachAnalyzer, recedeAnalyzer) ==
    CASE config.approachDetection = "null options" ->
            CaughtAnalysis(StageThrown("Cannot destructure null", "detect"))
      [] config.approachDetection = "on" ->
            analyzeFromSections(length, sampleRate, config, detected,
                                approachAnalyzer, recedeAnalyzer)
      [] OTHER ->
            analyzeFromSections(length, sampleRate, config, NoDetection,
                                approachAnalyzer, recedeAnalyzer)

(***************************************************************************)
(* ApproachDetector: RMS energy profile, smoothing, peaks, selection.      *)
(* Energies are exact fractions; the sample buffers considered are those   *)
(* whose windows all have a mean square that is a perfect square, so that  *)
(* Math.sqrt is exact on them                                              *)
(***************************************************************************)
IsSquare(v) == \E r \in 0..v : r * r = v

Sqrt(v) == CHOOSE r \in 0..v : r * r = v

FracAdd(x, y) == Frac(x.n * y.d + y.n * x.d, x.d * y.d)

FracSub(x, y) == Frac(x.n * y.d - y.n * x.d, x.d * y.d)

FracMul(x, y) == Frac(x.n * y.n, x.d * y.d)

\* x / y for y > 0
FracDiv(x, y) == Frac(x.n * y.d, x.d * y.n)

FracLeq(x, y) == ~FracLess(y, x)

\* Math.floor(smoothingWindow * sampleRate) with smoothingWindow = 0.05
smoothingSamples(sampleRate) == sampleRate \div 20

\* the inner loop of calculateEnergyProfile for the window centred at the
\* 0-based position i: the samples i - half .. i + half - 1
RECURSIVE sumSquares(_, _, _)
sumSquares(samples, from, to) ==
    IF from >= to THEN 0
    ELSE samples[from + 1] * samples[from + 1] + sumSquares(samples, from + 1, to)

\* sumSquares / count of the window centred at i
MeanSquare(samples, half, i) ==
    [n |-> sumSquares(samples, i - half, i + half), d |-> 2 * half]

\* Math.sqrt is exact on every window of the buffer
HasExactProfile(samples, window) ==
    LET half == window \div 2
    IN  \A i \in half .. Len(samples) - half - 1 :
            half > 0 =>
                LET ms == MeanSquare(samples, half, i)
                IN  ms.n % ms.d = 0 /\ IsSquare(ms.n \div ms.d)

calculateEnergyProfile(samples, window) ==
    LET half == window \div 2
        rms(i) == IF half > 0
                  THEN LET ms == MeanSquare(samples, half, i)
                       IN  Frac(Sqrt(ms.n \div ms.d), 1)
                  ELSE Frac(0, 1)
    IN  [p \in 1 .. Max2(0, Len(samples) - 2 * half) |->
            [index |-> half + p - 1, energy |-> rms(half + p - 1)]]

\* the sum of the energies at the profile positions from .. to
RECURSIVE sumEnergy(_, _, _)
sumEnergy(energyProfile, from, to) ==
    IF from > to THEN Frac(0, 1)
    ELSE FracAdd(energyProfile[from].energy, sumEnergy(energyProfile, from + 1, to))

applySmoothingFilter(energyProfile, smoothing) ==
    IF smoothing <= 1 THEN energyProfile
    ELSE LET half == smoothing \div 2
             lo(p) == Max2(1, p - half)
             hi(p) == Min2(Len(energyProfile), p + half)
         IN  [p \in 1 .. Len(energyProfile) |->
                [index |-> energyProfile[p].index,
                 energy |-> FracDiv(sumEnergy(energyProfile, lo(p), hi(p)),
                                    Frac(hi(p) - lo(p) + 1, 1))]]

\* Math.max(...energyProfile.map(p => p.energy))
RECURSIVE maxEnergyFrom(_, _)
maxEnergyFrom(energyProfile, p) ==
    IF p = Len(energyProfile) THEN energyProfile[p].energy
    ELSE FracMax(energyProfile[p].energy, maxEnergyFrom(energyProfile, p + 1))

\* Math.min(20, Math.floor(energyProfile.length / 10))
MaxSearchRadius == 20

searchRadius(energyProfile) == Min2(MaxSearchRadius, Len(energyProfile) \div 10)

\* the lowest energy around position p, the energy at p at most
RECURSIVE minSurroundingFrom(_, _, _, _)
minSurroundingFrom(energyProfile, p, j, to) ==
    IF j > to THEN energyProfile[p].energy
    ELSE FracMin(energyProfile[j].energy,
                 minSurroundingFrom(energyProfile, p, j + 1, to))

peakProminenceAt(energyProfile, p) ==
    LET radius == searchRadius(energyProfile)
    IN  FracSub(energyProfile[p].energy,
                minSurroundingFrom(energyProfile, p, Max2(1, p - radius),
                                   Min2(Len(energyProfile), p + radius)))

\* Math.min(1.0, peakProminence / (maxEnergy * 0.5))
peakConfidence(peakProminence, maxEnergy) ==
    FracMin(Frac(1, 1), FracDiv(peakProminence, FracMul(maxEnergy, Frac(1, 2))))

\* the peaks pushed by the loop, in profile order
RECURSIVE peaksFrom(_, _, _, _)
peaksFrom(energyProfile, p, maxEnergy, prominence) ==
    IF p >= Len(energyProfile) THEN <<>>
    ELSE LET current == energyProfile[p].energy
             isLocalMaximum == FracLess(energyProfile[p - 1].energy, current)
                               /\ FracLess(energyProfile[p + 1].energy, current)
             peakProminence == peakProminenceAt(energyProfile, p)
             rest == peaksFrom(energyProfile, p + 1, maxEnergy, prominence)
         IN  IF isLocalMaximum
                /\ FracLeq(FracMul(maxEnergy, prominence), peakProminence)
             THEN <<[index |-> energyProfile[p].index,
                     energy |-> current,
                     prominence |-> peakProminence,
                     confidence |-> peakConfidence(peakProminence, maxEnergy)]>>
                  \o rest
             ELSE rest

\* Array.prototype.sort is stable: a peak goes behind those of equal prominence
RECURSIVE InsertByProminence(_, _)
InsertByProminence(sorted, peak) ==
    IF sorted = <<>> THEN <<peak>>
    ELSE IF FracLess(Head(sorted).prominence, peak.prominence)
         THEN <<peak>> \o sorted
         ELSE <<Head(sorted)>> \o InsertByProminence(Tail(sorted), peak)

\* peaks.sort((a, b) => b.prominence - a.prominence)
RECURSIVE SortByProminenceFrom(_, _, _)
SortByProminenceFrom(peaks, k, sorted) ==
    IF k > Len(peaks) THEN sorted
    ELSE SortByProminenceFrom(peaks, k + 1, InsertByProminence(sorted, peaks[k]))

findEnergyPeaks(energyProfile, prominence) ==
    IF Len(energyProfile) < 3 THEN <<>>
    ELSE SortByProminenceFrom(
             peaksFrom(energyProfile, 2, maxEnergyFrom(energyProfile, 1), prominence),
             1, <<>>)

\* the first peak of the list from position k on with enough confidence,
\* 0 when there is none
RECURSIVE bestPeakFrom(_, _, _)
bestPeakFrom(peaks, k, minimumConfidence) ==
    IF k > Len(peaks) THEN 0
    ELSE IF FracLeq(minimumConfidence, peaks[k].confidence) THEN k
         ELSE bestPeakFrom(peaks, k + 1, minimumConfidence)

\* a selection that gives up when no peak has enough confidence
selectClosestApproachPeakMut(peaks, energyProfile, minimumConfidence) ==
    LET bestPeak == bestPeakFrom(peaks, 1, minimumConfidence)
    IN  IF bestPeak = 0
        THEN [found |-> FALSE, confidence |-> Frac(0, 1),
              reason |-> "No energy peaks detected",
              closestApproachIndex |-> Len(energyProfile) \div 2]
        ELSE [found |-> TRUE, confidence |-> peaks[bestPeak].confidence,
              reason |-> "High confidence peak detected",
              closestApproachIndex |-> peaks[bestPeak].index]

selectClosestApproachPeak(peaks, energyProfile, minimumConfidence) ==
    IF Len(peaks) = 0
    THEN [found |-> FALSE, confidence |-> Frac(0, 1),
          reason |-> "No energy peaks detected",
          closestApproachIndex |-> Len(energyProfile) \div 2]
    ELSE LET bestPeak == bestPeakFrom(peaks, 1, minimumConfidence)
         IN  IF bestPeak = 0
             THEN [found |-> TRUE, confidence |-> peaks[1].confidence,
                   reason |-> "Low confidence peak selected",
                   closestApproachIndex |-> peaks[1].index]
             ELSE [found |-> TRUE, confidence |-> peaks[bestPeak].confidence,
                   reason |-> "High confidence peak detected",
                   closestApproachIndex |-> peaks[bestPeak].index]

\* peakProminence = 0.1
DefaultPeakProminence == Frac(1, 10)

\* minimumConfidence = 0.3
DefaultMinimumConfidence == Frac(3, 10)

\* options = {} leaves minimumConfidence out
DefaultOptions == [given |-> FALSE, minimumConfidence |-> DefaultMinimumConfidence]

findClosestApproach(samples, sampleRate, options) ==
    LET energyProfile == calculateEnergyProfile(samples, windowSamples(sampleRate))
        smoothedProfile == applySmoothingFilter(energyProfile,
                                                smoothingSamples(sampleRate))
        peaks == findEnergyPeaks(smoothedProfile, DefaultPeakProminence)
        selected == selectClosestApproachPeak(peaks, smoothedProfile,
                        IF options.given THEN options.minimumConfidence
                        ELSE DefaultMinimumConfidence)
    IN  [found |-> selected.found, confidence |-> selected.confidence,
         reason |-> selected.reason,
         closestApproachIndex |-> selected.closestApproachIndex,
         energyProfile |-> smoothedProfile, allPeaks |-> peaks]

(***************************************************************************)
(* AudioProcessor: normalizeAmplitude and extractTimeSections. Samples are *)
(* integers, normalized samples exact fractions; a time is a whole number  *)
(* of half seconds                                                         *)
(***************************************************************************)
\* the loop that finds maxAmplitude, from position k on
RECURSIVE maxAmplitudeFrom(_, _, _)
maxAmplitudeFrom(samples, k, maxAmplitude) ==
    IF k > Len(samples) THEN maxAmplitude
    ELSE maxAmplitudeFrom(samples, k + 1,
             IF Abs(samples[k]) > maxAmplitude THEN Abs(samples[k])
             ELSE maxAmplitude)

\* a normalization to a maximum of 1
normalizeAmplitudeMut(samples) ==
    LET maxAmplitude == maxAmplitudeFrom(samples, 1, 0)
    IN  IF maxAmplitude = 0
        THEN [unchanged |-> TRUE,
              samples |-> [i \in 1..Len(samples) |-> Frac(samples[i], 1)]]
        ELSE [unchanged |-> FALSE,
              samples |-> [i \in 1..Len(samples) |->
                              Frac(samples[i], maxAmplitude)]]

\* scaleFactor = 0.95 / maxAmplitude; with maxAmplitude 0 the argument
\* itself is returned
normalizeAmplitude(samples) ==
    LET maxAmplitude == maxAmplitudeFrom(samples, 1, 0)
    IN  IF maxAmplitude = 0
        THEN [unchanged |-> TRUE,
              samples |-> [i \in 1..Len(samples) |-> Frac(samples[i], 1)]]
        ELSE [unchanged |-> FALSE,
              samples |-> [i \in 1..Len(samples) |->
                              Frac(95 * samples[i], 100 * maxAmplitude)]]

\* times are counted in units of 1 / TimeUnit seconds
TimeUnit == 2

\* Math.floor(time * sampleRate)
sampleAt(time, sampleRate) == (time * sampleRate) \div TimeUnit

\* AudioProcessor.extractTimeSections for one entry of timeRanges
processorTimeSection(length, sampleRate, startTime, endTime) ==
    LET startIndex == sampleAt(startTime, sampleRate)
        endIndex == sampleAt(endTime, sampleRate)
        validEndIndex == Min2(endIndex, length)
    IN  IF startIndex < validEndIndex
        THEN Slice(length, startIndex, validEndIndex)
        ELSE [from |-> 0, to |-> 0]

\* AudioSlicer.extractTimeSections for one entry of timeRanges
slicerTimeSection(length, sampleRate, startTime, endTime) ==
    LET range == <<sampleAt(startTime, sampleRate), sampleAt(endTime, sampleRate)>>
    IN  extractTimeSections(length,
            [approaching |-> range, receding |-> range, given |-> TRUE]).approaching

(***************************************************************************)
(* Arrays as objects.  An array is one entry of the sequence of objects:   *)
(* its length and the set of positions written since the caller filled the *)
(* sample buffer; a reference names the object and the part of it that is  *)
(* visible through the reference.                                          *)
(***************************************************************************)
\* the caller's sample array
InputObject == 1

NewArray(length) == [length |-> length, written |-> {}]

\* a view of the input instead of a copy, as subarray would give
sliceArrayMut(objs, range) ==
    [objects |-> objs,
     ref |-> [obj |-> InputObject, offset |-> range.from,
              length |-> SectionLength(range)]]

\* samples.slice(start, end), range being the positions taken: a new array
\* holding a copy of them
sliceArray(objs, range) ==
    [objects |-> Append(objs, NewArray(SectionLength(range))),
     ref |-> [obj |-> Len(objs) + 1, offset |-> 0,
              length |-> SectionLength(range)]]

\* the approaching and the receding array of a sectioning result
sectionArrays(objs, sections) ==
    LET approachSection == sliceArray(objs, sections.approaching)
        recedeSection == sliceArray(approachSection.objects, sections.receding)
    IN  [objects |-> recedeSection.objects,
         arrays |-> <<approachSection.ref, recedeSection.ref>>]

\* normalizeAmplitude: the array itself when every sample is 0, otherwise
\* new Array(samples.length) filled with the scaled samples
normalizedArray(objs, silent) ==
    IF silent
    THEN [objects |-> objs,
          arrays |-> <<[obj |-> InputObject, offset |-> 0,
                        length |-> objs[InputObject].length]>>]
    ELSE [objects |-> Append(objs, NewArray(objs[InputObject].length)),
          arrays |-> <<[obj |-> Len(objs) + 1, offset |-> 0,
                        length |-> objs[InputObject].length]>>]

\* findClosestApproach reads samples[j] and returns indices and energies
detectionArrays(objs) == [objects |-> objs, arrays |-> <<>>]

\* new SpectrumAnalyzer(samples, ...) keeps [...samples], and
\* calculatePowerSpectrum works on [...this.samples]
analyzerArrays(objs) ==
    LET length == objs[InputObject].length
    IN  [objects |-> objs \o <<NewArray(length), NewArray(length)>>,
         arrays |-> <<>>]

\* array[k] = value through a reference
writeThrough(objs, ref, k) ==
    [objs EXCEPT ![ref.obj].written = @ \cup {ref.offset + k}]

(***************************************************************************)
(* SpectrumAnalyzer: an array field is null or an array; a power is a      *)
(* small natural number, a frequency the fraction bin * sampleRate / N     *)
(***************************************************************************)
Null == [isNull |-> TRUE, items |-> <<>>]

ArrayOf(items) == [isNull |-> FALSE, items |-> items]

\* Math.pow(2, Math.ceil(Math.log2(originalLength))), 0 for an empty buffer
RECURSIVE PowerOfTwoFrom(_, _)
PowerOfTwoFrom(originalLength, p) ==
    IF p >= originalLength THEN p ELSE PowerOfTwoFrom(originalLength, 2 * p)

fftLengthOf(originalLength) ==
    IF originalLength = 0 THEN 0 ELSE PowerOfTwoFrom(originalLength, 1)

\* the number of bins of a spectrum that can be allocated
halfLengthOf(originalLength) == fftLengthOf(originalLength) \div 2

\* this.frequencies[i] = (i * this.sampleRate) / fftLength for i < halfLength
frequenciesOf(originalLength, sampleRate) ==
    [i \in 1 .. halfLengthOf(originalLength) |->
        Frac((i - 1) * sampleRate, fftLengthOf(originalLength))]

\* the spectrum is allocated although new Array(halfLength) throws
finishPowerSpectrumMut(analyzer, originalLength, sampleRate, power) ==
    IF fftLengthOf(originalLength) % 2 # 0
    THEN [completed |-> FALSE,
          powerSpectrum |-> ArrayOf(<<>>), frequencies |-> ArrayOf(<<>>)]
    ELSE [completed |-> TRUE,
          powerSpectrum |-> ArrayOf(power),
          frequencies |-> ArrayOf(frequenciesOf(originalLength, sampleRate))]

\* calculatePowerSpectrum once the transform has returned: for a buffer of
\* one sample halfLength is 0.5 and new Array(halfLength) throws a
\* RangeError before anything is assigned
finishPowerSpectrum(analyzer, originalLength, sampleRate, power) ==
    IF fftLengthOf(originalLength) % 2 # 0
    THEN [completed |-> FALSE,
          powerSpectrum |-> analyzer.powerSpectrum,
          frequencies |-> analyzer.frequencies]
    ELSE [completed |-> TRUE,
          powerSpectrum |-> ArrayOf(power),
          frequencies |-> ArrayOf(frequenciesOf(originalLength, sampleRate))]

\* the result of a query: raised, or a peak frequency, or a candidate list
QueryRaised == [raised |-> TRUE, peak |-> Frac(0, 1), candidates |-> <<>>]

\* the loop of findPeakFrequency from bin 1 on (index 2 here), with a
\* strict comparison against the best power so far
RECURSIVE PeakIndexFrom(_, _, _, _)
PeakIndexFrom(power, i, maxPower, peakIndex) ==
    IF i > Len(power) THEN peakIndex
    ELSE IF power[i] > maxPower
         THEN PeakIndexFrom(power, i + 1, power[i], i)
         ELSE PeakIndexFrom(power, i + 1, maxPower, peakIndex)

\* this.frequencies[peakIndex] is undefined for an empty spectrum
findPeakFrequency(spectrum, frequencyArray) ==
    IF spectrum.isNull THEN QueryRaised
    ELSE LET peakIndex == PeakIndexFrom(spectrum.items, 2, 0, 1)
         IN  [raised |-> FALSE,
              peak |-> IF Len(frequencyArray.items) = 0 THEN Frac(0, 1)
                       ELSE frequencyArray.items[peakIndex],
              candidates |-> <<>>]

\* the candidate goes in front of those of equal power
InsertByPowerMut(sorted, candidate) ==
    LET k == Cardinality({i \in 1 .. Len(sorted) : sorted[i].power > candidate.power})
    IN  SubSeq(sorted, 1, k) \o <<candidate>> \o SubSeq(sorted, k + 1, Len(sorted))

\* one step of the stable sort by descending power: the candidate goes
\* behind every earlier candidate of the same or a higher power
InsertByPower(sorted, candidate) ==
    LET k == Cardinality({i \in 1 .. Len(sorted) : sorted[i].power >= candidate.power})
    IN  SubSeq(sorted, 1, k) \o <<candidate>> \o SubSeq(sorted, k + 1, Len(sorted))

\* candidates.sort((a, b) => b.power - a.power) over the bins in order
RECURSIVE SortByPowerFrom(_, _, _)
SortByPowerFrom(candidates, k, sorted) ==
    IF k > Len(candidates) THEN sorted
    ELSE SortByPowerFrom(candidates, k + 1, InsertByPower(sorted, candidates[k]))

getStrongestFrequencies(spectrum, frequencyArray, count) ==
    IF spectrum.isNull THEN QueryRaised
    ELSE LET candidates ==
                 [i \in 1 .. Len(frequencyArray.items) |->
                     [frequency |-> frequencyArray.items[i],
                      power |-> spectrum.items[i]]]
         IN  [raised |-> FALSE, peak |-> Frac(0, 1),
              candidates |-> Take(SortByPowerFrom(candidates, 1, <<>>), count)]

(***************************************************************************)
(* The WASM+SIMD fft wrapper.  wasmModule and fftSetup are the two         *)
(* variables of the JavaScript module; a module instance made by the       *)
(* factory is known by its number, a PFFFT setup by its pointer.           *)
(***************************************************************************)
\* fftSetup = null
NoSetup == [isNull |-> TRUE, setupPtr |-> 0, length |-> 0]

\* (length & (length - 1)) === 0
IsPowerOfTwoLength(length) ==
    length = 0 \/ \E k \in 0 .. 30 : length = 2 ^ k

\* an fft() call that has not been made
NotStarted ==
    [pc |-> "idle", length |-> 0, made |-> 0, module |-> 0, setupPtr |-> 0,
     beforeInit |-> FALSE, destroyedSetup |-> FALSE]

\* lines 99-184 of fft() for one call, run without interruption: the
\* wrapper's variables and the call afterwards; setupFails says whether
\* _pffft_new_setup returns 0 when it is called
fftBody(call, module, setup, made, insts, setupFails) ==
    LET renew == setup.isNull \/ setup.length # call.length
        destroyed == IF renew /\ ~setup.isNull
                     THEN [made EXCEPT ![setup.setupPtr].destroyed = TRUE]
                     ELSE made
        created == Append(destroyed,
                       [module |-> module, length |-> call.length,
                        destroyed |-> FALSE])
        newSetup == [isNull |-> FALSE, setupPtr |-> Len(created),
                     length |-> call.length]
        usedSetup == IF renew THEN newSetup ELSE setup
        called == [call EXCEPT !.module = module,
                               !.beforeInit = ~insts[module].ready]
    IN  IF ~IsPowerOfTwoLength(call.length)
        THEN [fftSetup |-> setup, setups |-> made, instances |-> insts,
              call |-> [call EXCEPT !.pc = "failed"]]
        ELSE IF renew /\ setupFails
        THEN [fftSetup |-> setup, setups |-> destroyed, instances |-> insts,
              call |-> [called EXCEPT !.pc = "failed"]]
        ELSE [fftSetup |-> usedSetup,
              setups |-> IF renew THEN created ELSE made,
              instances |-> [insts EXCEPT ![module].transformed = TRUE],
              call |-> [called EXCEPT
                          !.pc = "done",
                          !.setupPtr = usedSetup.setupPtr,
                          !.destroyedSetup =
                              IF renew THEN FALSE
                              ELSE made[setup.setupPtr].destroyed]]

(***************************************************************************)
(* The calculator as a state machine                                       *)
(***************************************************************************)
\* the limits setSpeedLimits is called with
SpeedLimits == {<<0, 1000>>, <<0, 500>>, <<0, 343>>, <<-100, 1000>>, <<10, 200>>}

\* the frequencies handed to the calculator: small integers, non-positive
\* ones included, and two pairs whose Doppler speeds are exactly 343 km/h
\* (23, 13) and exactly 1000 km/h (5587, 587)
MaxFreq == 10

ValFreqs == (-1 .. MaxFreq) \cup {13, 23, 587, 5587}

NoCall == [op |-> "none", f1 |-> 0, f2 |-> 0, lo |-> 0, hi |-> 0,
           speed |-> NullSpeed,
           res |-> [speedKMH |-> NullSpeed, speedMPH |-> NullSpeed,
                    valid |-> FALSE, error |-> NoError]]

CalcInit ==
    /\ minReasonableSpeed = 0
    /\ maxReasonableSpeed = 1000

DopIdle == dop = NoCall

SetSpeedLimits ==
    \E lim \in SpeedLimits :
        /\ minReasonableSpeed' = lim[1]
        /\ maxReasonableSpeed' = lim[2]
        /\ dop' = NoCall
        /\ best' = NoBest
        /\ UNCHANGED <<bestArgs, otherThanAnalyzer>>

CalculateSpeed ==
    \E f1 \in ValFreqs, f2 \in ValFreqs :
        /\ f1 + f2 > 0
        /\ dop' = [NoCall EXCEPT !.op = "calculateSpeed", !.f1 = f1, !.f2 = f2,
                      !.lo = minReasonableSpeed, !.hi = maxReasonableSpeed,
                      !.speed = calculateSpeed(minReasonableSpeed,
                                               maxReasonableSpeed, f1, f2)]
        /\ UNCHANGED <<calcVars, bestVars, otherThanAnalyzer>>

CalculateSpeedWithValidation ==
    \E f1 \in ValFreqs, f2 \in ValFreqs :
        /\ dop' = [NoCall EXCEPT !.op = "calculateSpeedWithValidation",
                      !.f1 = f1, !.f2 = f2,
                      !.lo = minReasonableSpeed, !.hi = maxReasonableSpeed,
                      !.res = calculateSpeedWithValidation(minReasonableSpeed,
                                               maxReasonableSpeed, f1, f2)]
        /\ UNCHANGED <<calcVars, bestVars, otherThanAnalyzer>>

DopNext == SetSpeedLimits \/ CalculateSpeed \/ CalculateSpeedWithValidation

(***************************************************************************)
(* findBestSpeedCalculation as a state machine: the candidate lists and    *)
(* the expected speed are the inputs, drawn in the initial state           *)
(***************************************************************************)
\* candidate frequencies (Hz): 6 against any other is 1000 km/h or more for
\* the default limits or 500 km/h or more for the Secondary tier; 40, 41
\* and 46 give speeds below, inside and above the band of 10 to 100 mph
CandFreqs == {6, 40, 41, 46}

MaxCand == 2

ExpectedSpeeds == {0, 20, 60}

RECURSIVE ListsOf(_, _)
ListsOf(S, n) ==
    IF n = 0 THEN {<<>>}
    ELSE ListsOf(S, n - 1) \cup
         {Append(l, x) : l \in {m \in ListsOf(S, n - 1) : Len(m) = n - 1}, x \in S}

CandidateLists == ListsOf(CandFreqs \cup {Undef}, MaxCand)

BestInputs ==
    /\ argApproach \in CandidateLists
    /\ argRecede \in CandidateLists
    /\ argExpected \in ExpectedSpeeds
    /\ best = NoBest

BestIdle ==
    /\ argApproach = <<>>
    /\ argRecede = <<>>
    /\ argExpected = 0
    /\ best = NoBest

FindBestSpeedCalculation ==
    LET own == [minReasonableSpeed |-> minReasonableSpeed,
                maxReasonableSpeed |-> maxReasonableSpeed]
        after == tierObjects(own, argApproach, argRecede)
    IN  /\ best' = [called |-> TRUE,
                    lo |-> minReasonableSpeed, hi |-> maxReasonableSpeed,
                    approachFrequencies |-> argApproach,
                    recedeFrequencies |-> argRecede] @@
                   findBestSpeedCalculation(minReasonableSpeed,
                       maxReasonableSpeed, argApproach, argRecede, argExpected)
        /\ minReasonableSpeed' = after.own.minReasonableSpeed
        /\ maxReasonableSpeed' = after.own.maxReasonableSpeed
        /\ argApproach' = after.approachFrequencies
        /\ argRecede' = after.recedeFrequencies
        /\ UNCHANGED <<dop, argExpected, otherThanAnalyzer>>

BestNext == SetSpeedLimits \/ FindBestSpeedCalculation

(***************************************************************************)
(* combineAnalyses as a state machine: the two section analyses and the    *)
(* threshold are the inputs, drawn in the initial state                    *)
(***************************************************************************)
\* peak frequencies (Hz): 64 against 6 is above 1000 km/h, 41 against 40 is
\* 15 km/h, 64 against 40 or 41 is between 100 and 1000 km/h
PeakFreqs == {6, 40, 41, 64}

PeakPowers == {1, 2}

MaxPeaks == 2

\* the lists getStrongestFrequencies can return: distinct bins in
\* non-increasing power order
RECURSIVE PeakLists(_)
PeakLists(n) ==
    IF n = 0 THEN {<<>>}
    ELSE PeakLists(n - 1) \cup
         {Append(l, [frequency |-> f, power |-> p]) :
             l \in {m \in PeakLists(n - 1) : Len(m) = n - 1},
             f \in PeakFreqs, p \in PeakPowers}

IsPeakList(l) ==
    /\ \A i, j \in 1..Len(l) : i < j =>
           l[i].frequency # l[j].frequency /\ l[i].power >= l[j].power

QualityPercents == {0, 100}

\* analyzeSingleSection's result for a section that is too short or failed
InvalidAnalysis == [valid |-> FALSE, frequencies |-> <<>>, quality |-> 0]

SectionAnalyses ==
    {InvalidAnalysis} \cup
    {[valid |-> TRUE, frequencies |-> rankFrequencies(l), quality |-> q] :
        l \in {m \in PeakLists(MaxPeaks) : IsPeakList(m)}, q \in QualityPercents}

ConfidenceThresholds == {DefaultConfidenceThreshold, 70}

NotCombined ==
    [called |-> FALSE, valid |-> FALSE, error |-> NoError,
     speedCalculations |-> <<>>, bestSpeed |-> NoSpeedCalculation,
     hasBest |-> FALSE]

CombineInputs ==
    /\ anaApproach \in SectionAnalyses
    /\ anaRecede \in SectionAnalyses
    /\ anaThreshold \in ConfidenceThresholds
    /\ combined = NotCombined

CombineIdle ==
    /\ anaApproach = InvalidAnalysis
    /\ anaRecede = InvalidAnalysis
    /\ anaThreshold = DefaultConfidenceThreshold
    /\ combined = NotCombined

CombineAnalyses ==
    /\ combined' = [called |-> TRUE] @@
                   combineAnalyses(anaApproach, anaRecede, anaThreshold)
    /\ UNCHANGED <<combineArgs, otherThanCombine>>

CombineNext == CombineAnalyses

(***************************************************************************)
(* Sectioning as a state machine: the buffer length and the sample rate    *)
(* are drawn in the initial state, the other arguments by each call        *)
(***************************************************************************)
\* buffer lengths around the thresholds 512, 1024 and 2048 of a quarter and
\* of a whole section
BufferLengths ==
    {0, 3, 2047, 2048, 2052, 4092, 4096, 4100, 5000, 8188, 8192, 8196, 20000}

\* at 1000 Hz the longer buffers last 5 seconds or more, at 44100 Hz none
SampleRates == {1000, 44100}

\* closest approach indices: outside the buffer, at its ends, around the
\* minimum section length from either end, and in the middle
IndexChoices(length) ==
    {0, 1, 2047, 2048, 2049, length \div 2, length - 2049, length - 2048,
     length - 1, length} \cap (0 .. length)

Detections(length) ==
    {NoDetection} \cup
    {[present |-> TRUE, found |-> f, closestApproachIndex |-> i] :
        f \in BOOLEAN, i \in IndexChoices(length) \ {0, length}}

SectioningStrategies == {"auto", "closest_approach", "quarters", "time_based"}

TimeRangeChoices(length) ==
    {NoTimeRanges} \cup
    {[approaching |-> <<0, a>>, receding |-> <<length - b, length>>, given |-> TRUE] :
        a \in {1000, 2048, 3000}, b \in {1000, 2048, 3000}}

NoSectioning ==
    [op |-> "none", index |-> NoIndex, configured |-> "none",
     approaching |-> [from |-> 0, to |-> 0], receding |-> [from |-> 0, to |-> 0],
     strategy |-> "none", selectedStrategy |-> "none", confidence |-> 0,
     validation |-> [isValid |-> FALSE, errors |-> 0, minSamples |-> 0],
     strategies |-> <<>>]

SlicerInputs ==
    /\ slLength \in BufferLengths
    /\ slRate \in SampleRates
    /\ sliced = NoSectioning

SlicerIdle ==
    /\ slLength = 0
    /\ slRate = 44100
    /\ sliced = NoSectioning

ExtractBestSections ==
    \E closestApproachIndex \in IndexChoices(slLength) \cup {NoIndex} :
        /\ sliced' = [op |-> "extractBestSections",
                          index |-> closestApproachIndex, configured |-> "none"] @@
                         extractBestSections(slLength, slRate, closestApproachIndex)
        /\ UNCHANGED <<slLength, slRate, otherThanSlicer>>

ExtractOptimalSections ==
    \E approachDetection \in Detections(slLength),
       sectioningStrategy \in SectioningStrategies,
       timeRanges \in TimeRangeChoices(slLength) :
        /\ sectioningStrategy # "time_based" => timeRanges = NoTimeRanges
        /\ sliced' = [op |-> "extractOptimalSections",
                          index |-> approachDetection.closestApproachIndex,
                          configured |-> sectioningStrategy] @@
                         extractOptimalSections(slLength, slRate, approachDetection,
                                                sectioningStrategy, timeRanges)
        /\ UNCHANGED <<slLength, slRate, otherThanSlicer>>

SlicerNext == ExtractBestSections \/ ExtractOptimalSections

(***************************************************************************)
(* The two entry points of an AudioAnalyzer as constructed, with the       *)
(* default calculator limits: findBestSpeedCalculation on the candidate    *)
(* lists of the initial state and analyzeAudioForSpeed on a buffer of the  *)
(* length and sample rate of the initial state                             *)
(***************************************************************************)
\* this.topFrequencyCount = options.topFrequencyCount || 10
DefaultTopFrequencyCount == 10

\* what the SpectrumAnalyzer of one section does: it throws, or it delivers
\* the strongest frequencies config.topFrequencyCount lets through, none
\* or the default number
AnalyzerOutcomes ==
    {[threw |-> TRUE, frequencies |-> 0]} \cup
    {[threw |-> FALSE, frequencies |-> n] : n \in {0, DefaultTopFrequencyCount}}

\* the results findClosestApproach can return for a buffer of this length
ClosestApproachResults(length, sampleRate) ==
    {NoPeakDetection(length, sampleRate)} \cup
    {[present |-> TRUE, found |-> TRUE, closestApproachIndex |-> i] :
        i \in IndexChoices(length) \cap PeakIndices(length, sampleRate)}

ApproachDetectionModes == {"off", "on", "null options"}

AnalysisTimeRanges(length) ==
    {NoTimeRanges} \cup
    {[approaching |-> <<0, a>>, receding |-> <<length - b, length>>, given |-> TRUE] :
        a \in {1000, 2048}, b \in {1000, 2048}}

AnalysisConfigs(length) ==
    {c \in [approachDetection : ApproachDetectionModes,
            sectioningStrategy : SectioningStrategies,
            timeRanges : AnalysisTimeRanges(length),
            multiStrategy : BOOLEAN] :
        c.sectioningStrategy # "time_based" => c.timeRanges = NoTimeRanges}

NoAnalysis ==
    [called |-> FALSE, sectioningStrategy |-> "none", approachDetection |-> "off"]
    @@ AnalysisResult(FALSE, "", "none")

\* candidate lists of at most one entry
ShortCandidateLists == ListsOf(CandFreqs \cup {Undef}, 1)

\* either the candidate lists vary and the buffer is empty, or the buffer
\* varies and the candidate lists are empty
AnalyzeInputs ==
    /\ best = NoBest
    /\ sliced = NoSectioning
    /\ analysis = NoAnalysis
    /\ \/ /\ argApproach \in ShortCandidateLists
          /\ argRecede \in ShortCandidateLists
          /\ argExpected \in ExpectedSpeeds
          /\ slLength = 0
          /\ slRate = 44100
       \/ /\ argApproach = <<>>
          /\ argRecede = <<>>
          /\ argExpected = 0
          /\ slLength \in BufferLengths
          /\ slRate \in SampleRates

AnalyzeIdle == analysis = NoAnalysis

AnalyzeAudioForSpeed ==
    \E config \in AnalysisConfigs(slLength),
       detected \in ClosestApproachResults(slLength, slRate),
       approachAnalyzer \in AnalyzerOutcomes,
       recedeAnalyzer \in AnalyzerOutcomes :
        /\ analysis' = [called |-> TRUE,
                        sectioningStrategy |-> config.sectioningStrategy,
                        approachDetection |-> config.approachDetection] @@
                       analyzeAudioForSpeed(slLength, slRate, config, detected,
                                            approachAnalyzer, recedeAnalyzer)
        /\ UNCHANGED <<calcVars, dop, bestVars, combineVars, slicerVars, spectrumVars,
                     approachVars, processorVars, memoryVars, wasmVars>>

AnalyzeNext == FindBestSpeedCalculation \/ AnalyzeAudioForSpeed

(***************************************************************************)
(* One SpectrumAnalyzer instance: calculatePowerSpectrum is asynchronous,  *)
(* it waits for the FFT implementation to load and, with a WASM            *)
(* implementation, for the transform; the queries are synchronous and can  *)
(* run between any two of its steps                                        *)
(***************************************************************************)
\* calculatePowerSpectrum calls made on the instance
MaxCalls == 2

\* the powers of a bin are 0 .. MaxPower
MaxPower == 2

\* getStrongestFrequencies(count) with count in 0 .. MaxCount
MaxCount == 5

\* samples.length: no bin, a failing allocation, 1, 2 and 4 bins
SpectrumLengths == {0, 1, 2, 3, 5}

\* the power spectra finite samples of this length can have
Spectra(originalLength) ==
    [1 .. halfLengthOf(originalLength) -> 0 .. MaxPower]

Calls == 1 .. MaxCalls

NoQuery ==
    [op |-> "none", count |-> 0, raised |-> FALSE, peak |-> Frac(0, 1),
     candidates |-> <<>>]

SpectrumInputs ==
    /\ spLength \in SpectrumLengths
    /\ spRate \in SampleRates
    /\ spPower \in Spectra(spLength)
    /\ fftImplementation = "none"
    /\ powerSpectrum = Null
    /\ spFrequencies = Null
    /\ spCalls = [i \in Calls |-> "idle"]
    /\ spQuery = NoQuery

SpectrumIdle ==
    /\ spLength = 0
    /\ spRate = 44100
    /\ spPower = <<>>
    /\ fftImplementation = "none"
    /\ powerSpectrum = Null
    /\ spFrequencies = Null
    /\ spCalls = [i \in Calls |-> "idle"]
    /\ spQuery = NoQuery

\* the transform has returned: the call stores the spectrum and resolves,
\* or it rejects
FinishCall(i) ==
    LET finished == finishPowerSpectrum(
            [powerSpectrum |-> powerSpectrum, frequencies |-> spFrequencies],
            spLength, spRate, spPower)
    IN  /\ spCalls' = [spCalls EXCEPT
               ![i] = IF finished.completed THEN "done" ELSE "failed"]
        /\ powerSpectrum' = finished.powerSpectrum
        /\ spFrequencies' = finished.frequencies

\* from the loaded implementation to the await of an asynchronous
\* transform, or through the JavaScript transform, which is synchronous
\* and does not throw for a power-of-two length, to the end of the call
TransformWith(i, implementation) ==
    IF implementation = "async"
    THEN /\ spCalls' = [spCalls EXCEPT ![i] = "transforming"]
         /\ UNCHANGED <<powerSpectrum, spFrequencies>>
    ELSE FinishCall(i)

\* a call starts: it awaits the loading of the implementation unless an
\* earlier call has stored one
CalculatePowerSpectrum(i) ==
    /\ spCalls[i] = "idle"
    /\ \A j \in Calls : j < i => spCalls[j] # "idle"
    /\ IF fftImplementation = "none"
       THEN /\ spCalls' = [spCalls EXCEPT ![i] = "loading"]
            /\ UNCHANGED <<powerSpectrum, spFrequencies>>
       ELSE TransformWith(i, fftImplementation)
    /\ spQuery' = NoQuery
    /\ UNCHANGED <<spLength, spRate, spPower, fftImplementation, otherThanSpectrum>>

\* loadFFTImplementation settles: the implementation is stored and the
\* call goes on, or the import of the fallback fails and the call rejects
LoadSettled(i) ==
    /\ spCalls[i] = "loading"
    /\ \/ \E implementation \in {"async", "sync"} :
             /\ fftImplementation' = implementation
             /\ TransformWith(i, implementation)
       \/ /\ spCalls' = [spCalls EXCEPT ![i] = "failed"]
          /\ UNCHANGED <<fftImplementation, powerSpectrum, spFrequencies>>
    /\ spQuery' = NoQuery
    /\ UNCHANGED <<spLength, spRate, spPower, otherThanSpectrum>>

\* the asynchronous transform settles: the spectrum is stored, or the
\* wrapper throws and the call rejects
TransformSettled(i) ==
    /\ spCalls[i] = "transforming"
    /\ \/ FinishCall(i)
       \/ /\ spCalls' = [spCalls EXCEPT ![i] = "failed"]
          /\ UNCHANGED <<powerSpectrum, spFrequencies>>
    /\ spQuery' = NoQuery
    /\ UNCHANGED <<spLength, spRate, spPower, fftImplementation, otherThanSpectrum>>

FindPeakFrequency ==
    /\ spQuery' = [op |-> "findPeakFrequency", count |-> 0] @@
                  findPeakFrequency(powerSpectrum, spFrequencies)
    /\ UNCHANGED <<spLength, spRate, spPower, fftImplementation, powerSpectrum,
                   spFrequencies, spCalls, otherThanSpectrum>>

GetStrongestFrequencies ==
    \E count \in 0 .. MaxCount :
        /\ spQuery' = [op |-> "getStrongestFrequencies", count |-> count] @@
                      getStrongestFrequencies(powerSpectrum, spFrequencies, count)
        /\ UNCHANGED <<spLength, spRate, spPower, fftImplementation, powerSpectrum,
                       spFrequencies, spCalls, otherThanSpectrum>>

SpectrumNext ==
    \/ \E i \in Calls : CalculatePowerSpectrum(i)
    \/ \E i \in Calls : LoadSettled(i)
    \/ \E i \in Calls : TransformSettled(i)
    \/ FindPeakFrequency
    \/ GetStrongestFrequencies

(***************************************************************************)
(* State machine of ApproachDetector.findClosestApproach                   *)
(***************************************************************************)
MaxBurst == 4

\* sample values of a burst; a buffer is silence around two bursts, the
\* second one at the same or at twice the level, either of them possibly empty
Amplitudes == {0, 6, 8}

LeadLengths == {2, 10}

GapLengths == {4, 12}

TrailLengths == {2, 10, 20}

ApproachRates == {40, 50}

Silence(n) == [i \in 1..n |-> 0]

Bursts ==
    {b \in ListsOf(Amplitudes, MaxBurst) :
        /\ b # <<>> => b[1] # 0 /\ b[Len(b)] # 0
        /\ HasExactProfile(Silence(4) \o b \o Silence(4), 4)}

\* the burst with every sample doubled
Doubled(b) == [i \in 1..Len(b) |-> 2 * b[i]]

SampleBuffers ==
    {Silence(lead) \o first \o Silence(gap) \o second \o Silence(trail) :
        lead \in LeadLengths, first \in Bursts, gap \in GapLengths,
        second \in Bursts \cup {Doubled(b) : b \in Bursts}, trail \in TrailLengths}

MinimumConfidences == {Frac(3, 10), Frac(1, 2), Frac(1, 1)}

ApproachOptions ==
    {DefaultOptions} \cup
    {[given |-> TRUE, minimumConfidence |-> c] : c \in MinimumConfidences}

NoApproach == [called |-> FALSE]

ApproachInputs ==
    /\ apSamples \in SampleBuffers
    /\ apRate \in ApproachRates
    /\ HasExactProfile(apSamples, windowSamples(apRate))
    /\ apOptions \in ApproachOptions
    /\ detection = NoApproach

ApproachIdle ==
    /\ apSamples = <<>>
    /\ apRate = 0
    /\ apOptions = DefaultOptions
    /\ detection = NoApproach

FindClosestApproach ==
    /\ detection' = [called |-> TRUE] @@
                    findClosestApproach(apSamples, apRate, apOptions)
    /\ UNCHANGED <<apSamples, apRate, apOptions, otherThanApproach>>

ApproachNext == FindClosestApproach

(***************************************************************************)
(* The static functions of AudioProcessor and AudioSlicer on one buffer    *)
(***************************************************************************)
MaxSamples == 4

SampleValues == {-3, -1, 0, 2}

ProcessorRates == {1, 3}

\* range limits in half seconds, from before the buffer to after its end
TimeChoices == {-3, -1, 0, 1, 2, 5}

NotProcessed == [op |-> "none"]

ProcessorInputs ==
    /\ prSamples \in ListsOf(SampleValues, MaxSamples)
    /\ prRate \in ProcessorRates
    /\ processed = NotProcessed

ProcessorIdle ==
    /\ prSamples = <<>>
    /\ prRate = 0
    /\ processed = NotProcessed

NormalizeAmplitude ==
    /\ processed' = [op |-> "normalizeAmplitude"] @@ normalizeAmplitude(prSamples)
    /\ UNCHANGED <<prSamples, prRate, otherThanProcessor>>

\* both extractTimeSections, called with timeRanges = { section: [startTime, endTime] }
ExtractTimeSections ==
    \E startTime \in TimeChoices, endTime \in TimeChoices :
        /\ processed' =
               [op |-> "extractTimeSections",
                startTime |-> startTime, endTime |-> endTime,
                processor |-> processorTimeSection(Len(prSamples), prRate,
                                                   startTime, endTime),
                slicer |-> slicerTimeSection(Len(prSamples), prRate,
                                             startTime, endTime)]
        /\ UNCHANGED <<prSamples, prRate, otherThanProcessor>>

ProcessorNext == NormalizeAmplitude \/ ExtractTimeSections

(***************************************************************************)
(* findBestSpeedCalculation on candidates with two pairs of equal speed:   *)
(* 80 against 40 and 40 against 20 are both 411.6 km/h                     *)
(***************************************************************************)
TieFreqs == {20, 40, 80}

MatcherInputs ==
    /\ argApproach \in ListsOf(TieFreqs, MaxCand)
    /\ argRecede \in ListsOf(TieFreqs, MaxCand)
    /\ argExpected \in ExpectedSpeeds
    /\ best = NoBest

(***************************************************************************)
(* The pipeline operations on one caller's sample array, and the caller    *)
(* writing into the sections it got back.  The arrays of an earlier call   *)
(* are dropped when the next call is made.                                 *)
(***************************************************************************)
SectioningOps ==
    {"extractSections", "extractShortFileSections", "extractTimeSections",
     "extractBestSections"}

NothingReturned == [op |-> "none", arrays |-> <<>>]

MemoryInputs ==
    /\ bufSilent \in BOOLEAN
    /\ objects = <<NewArray(slLength)>>
    /\ handed = NothingReturned

MemoryIdle ==
    /\ bufSilent = FALSE
    /\ objects = <<>>
    /\ handed = NothingReturned

\* the caller's array as the earlier calls and writes left it
Kept == <<objects[InputObject]>>

Returns(op, result) ==
    /\ objects' = result.objects
    /\ handed' = [op |-> op, arrays |-> result.arrays]
    /\ UNCHANGED <<bufSilent, otherThanMemory>>

BufferNormalizeAmplitude ==
    Returns("normalizeAmplitude", normalizedArray(Kept, bufSilent))

BufferFindClosestApproach ==
    Returns("findClosestApproach", detectionArrays(Kept))

BufferExtractSections ==
    \E closestApproachIndex \in IndexChoices(slLength) :
        Returns("extractSections",
            sectionArrays(Kept, extractSections(slLength, slRate,
                                                closestApproachIndex)))

BufferExtractShortFileSections ==
    Returns("extractShortFileSections",
        sectionArrays(Kept, extractShortFileSections(slLength)))

BufferExtractTimeSections ==
    \E timeRanges \in TimeRangeChoices(slLength) \ {NoTimeRanges} :
        Returns("extractTimeSections",
            sectionArrays(Kept, extractTimeSections(slLength, timeRanges)))

BufferExtractBestSections ==
    \E closestApproachIndex \in IndexChoices(slLength) \cup {NoIndex} :
        Returns("extractBestSections",
            sectionArrays(Kept, extractBestSections(slLength, slRate,
                                                    closestApproachIndex)))

BufferAnalyzeSpectrum ==
    Returns("SpectrumAnalyzer", analyzerArrays(Kept))

\* the caller changes the first or the last sample of a handed section
WriteSection ==
    \E i \in 1 .. Len(handed.arrays) :
        \E k \in {0, handed.arrays[i].length - 1} :
            /\ handed.op \in SectioningOps
            /\ handed.arrays[i].length > 0
            /\ objects' = writeThrough(objects, handed.arrays[i], k)
            /\ UNCHANGED <<bufSilent, handed, otherThanMemory>>

MemoryNext ==
    \/ BufferNormalizeAmplitude
    \/ BufferFindClosestApproach
    \/ BufferExtractSections
    \/ BufferExtractShortFileSections
    \/ BufferExtractTimeSections
    \/ BufferExtractBestSections
    \/ BufferAnalyzeSpectrum
    \/ WriteSection

(***************************************************************************)
(* AudioAnalyzer.extractSections on the buffer of the sectioning model     *)
(***************************************************************************)
ExtractionStrategies == {"peak_rms_energy", "quarters"}

AnalyzerExtractSections ==
    \E strategy \in ExtractionStrategies,
       closestApproachIndex \in detectClosestApproach(slLength) :
        /\ sliced' = [op |-> "AudioAnalyzer.extractSections",
                      configured |-> strategy,
                      index |-> closestApproachIndex] @@
                     analyzerExtractSections(slLength, slRate, strategy,
                                             closestApproachIndex)
        /\ UNCHANGED <<slLength, slRate, otherThanSlicer>>

SectionsNext == AnalyzerExtractSections

(***************************************************************************)
(* fft() calls on the WASM+SIMD wrapper.  JavaScript runs one call at a    *)
(* time up to its next await, so an action is the code between two awaits. *)
(***************************************************************************)
MaxFftCalls == 3

\* signal lengths: 3 is not a power of two
FftLengths == {2, 3, 4}

WasmIdle ==
    /\ wasmModule = 0
    /\ fftSetup = NoSetup
    /\ instances = <<>>
    /\ setups = <<>>
    /\ fftCalls = [c \in 1 .. MaxFftCalls |-> NotStarted]

\* the rest of fft() from line 99 on
RunBody(c, call) ==
    \E setupFails \in BOOLEAN :
        LET after == fftBody(call, wasmModule, fftSetup, setups, instances,
                             setupFails)
        IN  /\ fftSetup' = after.fftSetup
            /\ setups' = after.setups
            /\ instances' = after.instances
            /\ fftCalls' = [fftCalls EXCEPT ![c] = after.call]

\* fft(signal) is called: without a module it enters loadWasm and stops at
\* await import(...); with one it runs to its end
FftCall(c) ==
    \E length \in FftLengths :
        /\ fftCalls[c].pc = "idle"
        /\ c > 1 => fftCalls[c - 1].pc # "idle"
        /\ IF wasmModule = 0
           THEN /\ fftCalls' = [fftCalls EXCEPT ![c].pc = "importing",
                                                ![c].length = length]
                /\ UNCHANGED <<fftSetup, setups, instances>>
           ELSE RunBody(c, [fftCalls[c] EXCEPT !.length = length])
        /\ UNCHANGED <<wasmModule, otherThanWasm>>

\* line 24 resumes: the factory is called and starts a module instance
ImportResolved(c) ==
    /\ fftCalls[c].pc = "importing"
    /\ instances' = Append(instances, [ready |-> FALSE, transformed |-> FALSE])
    /\ fftCalls' = [fftCalls EXCEPT ![c].pc = "instantiating",
                                    ![c].made = Len(instances) + 1]
    /\ UNCHANGED <<wasmModule, fftSetup, setups, otherThanWasm>>

\* the runtime of an instance finishes its initialisation
RuntimeInitialized(m) ==
    /\ ~instances[m].ready
    /\ instances' = [instances EXCEPT ![m].ready = TRUE]
    /\ UNCHANGED <<wasmModule, fftSetup, setups, fftCalls, otherThanWasm>>

\* line 25 resumes: wasmModule is assigned, and the promise of line 33
\* runs checkReady, which looks at wasmModule
FactoryResolved(c) ==
    /\ fftCalls[c].pc = "instantiating"
    /\ wasmModule' = fftCalls[c].made
    /\ fftCalls' = [fftCalls EXCEPT
                      ![c].pc = IF instances[fftCalls[c].made].ready
                                THEN "loaded" ELSE "polling"]
    /\ UNCHANGED <<fftSetup, instances, setups, otherThanWasm>>

\* onRuntimeInitialized or the poll of line 66 runs checkReady
CheckReady(c) ==
    /\ fftCalls[c].pc = "polling"
    /\ instances[wasmModule].ready
    /\ fftCalls' = [fftCalls EXCEPT ![c].pc = "loaded"]
    /\ UNCHANGED <<wasmModule, fftSetup, instances, setups, otherThanWasm>>

\* line 33 resumes, loadWasm returns and fft() goes on from line 99
LoadReturned(c) ==
    /\ fftCalls[c].pc = "loaded"
    /\ RunBody(c, fftCalls[c])
    /\ UNCHANGED <<wasmModule, otherThanWasm>>

WasmNext ==
    \/ \E c \in 1 .. MaxFftCalls : FftCall(c)
    \/ \E c \in 1 .. MaxFftCalls : ImportResolved(c)
    \/ \E m \in 1 .. Len(instances) : RuntimeInitialized(m)
    \/ \E c \in 1 .. MaxFftCalls : FactoryResolved(c)
    \/ \E c \in 1 .. MaxFftCalls : CheckReady(c)
    \/ \E c \in 1 .. MaxFftCalls : LoadReturned(c)

(***************************************************************************)
(* Specifications                                                          *)
(***************************************************************************)
DopInit == CalcInit /\ DopIdle /\ BestIdle /\ CombineIdle /\ SlicerIdle /\ AnalyzeIdle
           /\ SpectrumIdle /\ ApproachIdle /\ ProcessorIdle /\ MemoryIdle /\ WasmIdle

SpecDoppler == DopInit /\ [][DopNext]_vars

BestInit == CalcInit /\ DopIdle /\ BestInputs /\ CombineIdle /\ SlicerIdle /\ AnalyzeIdle
           /\ SpectrumIdle /\ ApproachIdle /\ ProcessorIdle /\ MemoryIdle /\ WasmIdle

SpecBest == BestInit /\ [][BestNext]_vars

CombineInit == CalcInit /\ DopIdle /\ BestIdle /\ CombineInputs /\ SlicerIdle /\ AnalyzeIdle
           /\ SpectrumIdle /\ ApproachIdle /\ ProcessorIdle /\ MemoryIdle /\ WasmIdle

SpecCombine == CombineInit /\ [][CombineNext]_vars

SlicerInit == CalcInit /\ DopIdle /\ BestIdle /\ CombineIdle /\ SlicerInputs /\ AnalyzeIdle
           /\ SpectrumIdle /\ ApproachIdle /\ ProcessorIdle /\ MemoryIdle /\ WasmIdle

SpecSlicer == SlicerInit /\ [][SlicerNext]_vars

AnalyzeInit == CalcInit /\ DopIdle /\ CombineIdle /\ AnalyzeInputs
               /\ SpectrumIdle /\ ApproachIdle /\ ProcessorIdle /\ MemoryIdle /\ WasmIdle

SpecAnalyze == AnalyzeInit /\ [][AnalyzeNext]_vars

SpectrumInit ==
    CalcInit /\ DopIdle /\ BestIdle /\ CombineIdle /\ SlicerIdle /\ AnalyzeIdle
    /\ SpectrumInputs /\ ApproachIdle /\ ProcessorIdle /\ MemoryIdle /\ WasmIdle

SpecSpectrum == SpectrumInit /\ [][SpectrumNext]_vars

ApproachInit ==
    CalcInit /\ DopIdle /\ BestIdle /\ CombineIdle /\ SlicerIdle /\ AnalyzeIdle
    /\ SpectrumIdle /\ ApproachInputs /\ ProcessorIdle /\ MemoryIdle /\ WasmIdle

SpecApproach == ApproachInit /\ [][ApproachNext]_vars

ProcessorInit ==
    CalcInit /\ DopIdle /\ BestIdle /\ CombineIdle /\ SlicerIdle /\ AnalyzeIdle
    /\ SpectrumIdle /\ ApproachIdle /\ ProcessorInputs /\ MemoryIdle /\ WasmIdle

SpecProcessor == ProcessorInit /\ [][ProcessorNext]_vars

MatcherInit ==
    CalcInit /\ DopIdle /\ MatcherInputs /\ CombineIdle /\ SlicerIdle /\ AnalyzeIdle
    /\ SpectrumIdle /\ ApproachIdle /\ ProcessorIdle /\ MemoryIdle /\ WasmIdle

SpecMatcher == MatcherInit /\ [][BestNext]_vars

MemoryInit ==
    CalcInit /\ DopIdle /\ BestIdle /\ CombineIdle /\ SlicerInputs /\ AnalyzeIdle
    /\ SpectrumIdle /\ ApproachIdle /\ ProcessorIdle /\ MemoryInputs /\ WasmIdle

SpecMemory == MemoryInit /\ [][MemoryNext]_vars

SpecSections == SlicerInit /\ [][SectionsNext]_vars

WasmInit ==
    CalcInit /\ DopIdle /\ BestIdle /\ CombineIdle /\ SlicerIdle /\ AnalyzeIdle
    /\ SpectrumIdle /\ ApproachIdle /\ ProcessorIdle /\ MemoryIdle /\ WasmIdle

SpecWasm == WasmInit /\ [][WasmNext]_vars

(***************************************************************************)
(* Claims on the calculator                                                *)
(***************************************************************************)
DefaultLimits == dop.lo = 0 /\ dop.hi = 1000

\* the Doppler speed of (f1, f2) in km/h, f1 + f2 > 0
DopplerKmh(f1, f2) == Ratio(f1 - f2, f1 + f2, "kmh")

\* C2 as stated: for all f1 > f2 > 0, calculateSpeed(f1, f2) with the default
\* sound speed and the default bounds returns 343*(f1-f2)/(f1+f2)*3.6 km/h.
C2_Original ==
    (dop.op = "calculateSpeed" /\ DefaultLimits /\ dop.f1 > dop.f2 /\ dop.f2 > 0)
        => dop.speed = DopplerKmh(dop.f1, dop.f2)

\* C2 amended: for all f1 > f2 > 0, calculateSpeed(f1, f2) with the default
\* sound speed and bounds returns 343*(f1-f2)/(f1+f2)*3.6 km/h when that value
\* is below 1000 km/h, and the number 0 when it is 1000 km/h or more.
C2_Amended ==
    (dop.op = "calculateSpeed" /\ DefaultLimits /\ dop.f1 > dop.f2 /\ dop.f2 > 0)
        => IF 3087 * (dop.f1 - dop.f2) < 2500 * (dop.f1 + dop.f2)
           THEN dop.speed = DopplerKmh(dop.f1, dop.f2) /\ ~IsZero(dop.speed)
           ELSE dop.speed = ZeroKmh

\* calculateSpeed has returned 0 for a pair f1 > f2 > 0 of 1000 km/h or more
C2_Witness ==
    /\ dop.op = "calculateSpeed" /\ DefaultLimits
    /\ dop.f1 > dop.f2 /\ dop.f2 > 0
    /\ KmhGeq(DopplerKmh(dop.f1, dop.f2), 1000)
    /\ dop.speed = ZeroKmh

ValidationInputsBad == dop.f1 <= 0 \/ dop.f2 <= 0 \/ Abs(dop.f1 - dop.f2) < 1

InvalidZero(r) == ~r.valid /\ r.speedKMH = ZeroKmh /\ r.speedMPH = ZeroMph

ValidWithSpeed(r, v) ==
    r.valid /\ r.speedKMH = v /\ r.speedMPH = [v EXCEPT !.unit = "mph"]

\* C3 as stated: calculateSpeedWithValidation returns valid=false with
\* speedKMH = speedMPH = 0 whenever f1 <= 0 or f2 <= 0, or |f1 - f2| < 1, or
\* the Doppler speed lies outside the closed bound [min, max]; for every other
\* pair it returns valid=true, the Doppler speed and its mph conversion.
C3_Original ==
    dop.op = "calculateSpeedWithValidation" =>
        IF ValidationInputsBad THEN InvalidZero(dop.res)
        ELSE LET v == DopplerKmh(dop.f1, dop.f2)
             IN  IF ~KmhGeq(v, dop.lo) \/ KmhGreater(v, dop.hi)
                 THEN InvalidZero(dop.res)
                 ELSE ValidWithSpeed(dop.res, v)

\* C3 amended: valid=false with speedKMH = speedMPH = 0 whenever f1 <= 0 or
\* f2 <= 0, or |f1 - f2| < 1, or the Doppler speed is below the configured
\* minimum or not below the configured maximum (the upper bound is exclusive);
\* every other pair whose Doppler speed is positive gives valid=true with the
\* Doppler speed in km/h and speedMPH = speedKMH * 0.621371.
C3_Amended ==
    dop.op = "calculateSpeedWithValidation" =>
        IF ValidationInputsBad THEN InvalidZero(dop.res)
        ELSE LET v == DopplerKmh(dop.f1, dop.f2)
             IN  IF ~KmhGeq(v, dop.lo) \/ KmhGeq(v, dop.hi)
                 THEN InvalidZero(dop.res)
                 ELSE IsPositive(v) => ValidWithSpeed(dop.res, v)

\* a pair whose Doppler speed equals the maximum has been rejected
C3_Witness ==
    /\ dop.op = "calculateSpeedWithValidation"
    /\ ~ValidationInputsBad
    /\ KmhGeq(DopplerKmh(dop.f1, dop.f2), dop.hi)
    /\ ~KmhGeq(DopplerKmh(dop.f1, dop.f2), dop.hi + 1)
    /\ InvalidZero(dop.res)

(***************************************************************************)
(* Claims about findBestSpeedCalculation                                   *)
(***************************************************************************)
TierResults == <<best.primary, best.secondary, best.tertiary>>

ValidTiers == {i \in 1..3 : TierResults[i].valid}

InBand(i) ==
    /\ ~MphLess(TierResults[i].speedMph, 10)
    /\ MphLeq(TierResults[i].speedMph, 100)

\* the tier results the choice is made among: the valid ones in the band
\* of 10 to 100 mph if there is one, all the valid ones otherwise
Pool ==
    IF \E i \in ValidTiers : InBand(i)
    THEN {i \in ValidTiers : InBand(i)}
    ELSE ValidTiers

\* tier i has the lowest speed of the pool and every earlier tier of the
\* pool is strictly faster
LowestEarliest(i) ==
    /\ i \in Pool
    /\ \A j \in Pool :
        /\ ~SpeedLess(TierResults[j].speedMph, TierResults[i].speedMph)
        /\ j < i => SpeedLess(TierResults[i].speedMph, TierResults[j].speedMph)

\* C1: whenever at least one of the Primary, Secondary and Tertiary tier
\* results is valid, findBestSpeedCalculation returns the valid tier result
\* with the lowest speedMph among those with 10 <= speedMph <= 100, or the
\* valid tier result with the lowest speedMph overall when none lies in
\* that band; of two tier results with equal speedMph it returns the one of
\* the earlier tier in the order Primary, Secondary, Tertiary.
C1_LowestReasonableSpeed ==
    (best.called /\ ValidTiers # {}) =>
        \E i \in 1..3 : LowestEarliest(i) /\ best.result = TierResults[i]

\* Primary is valid but below or above the band, Secondary lies in the band
\* and is returned although Primary or Tertiary is slower
C1_Witness ==
    /\ best.called
    /\ ValidTiers = {1, 2, 3}
    /\ ~InBand(1) /\ InBand(2)
    /\ SpeedLess(best.primary.speedMph, best.secondary.speedMph)
    /\ best.result = best.secondary
    /\ best.result.strategy = "Secondary"

(***************************************************************************)
(* Claims about invalid speeds                                             *)
(***************************************************************************)
\* no valid tier result and no returned result of findBestSpeedCalculation
\* has speed 0
TiersEmitNoZeroSpeed ==
    best.called =>
        \A r \in {best.primary, best.secondary, best.tertiary, best.result} :
            r.valid => ~IsZero(r.speedMph) /\ ~IsZero(r.speedKmh)

\* no entry of speedCalculations and no bestSpeed has speed 0
CombineEmitsNoZeroSpeed ==
    combined.called =>
        /\ \A i \in 1..Len(combined.speedCalculations) :
               ~IsZero(combined.speedCalculations[i].speed)
        /\ combined.hasBest => ~IsZero(combined.bestSpeed.speed)

\* C4: a candidate pair whose computed speed is the calculator's 0 sentinel
\* is never emitted: no valid tier result, no entry of speedCalculations
\* and no bestSpeed has speed 0.
C4_NoZeroSpeedEmitted == TiersEmitNoZeroSpeed /\ CombineEmitsNoZeroSpeed

(***************************************************************************)
(* Claims about sectioning                                                 *)
(***************************************************************************)
SectionShorterThan(n) ==
    \/ SectionLength(sliced.approaching) < n
    \/ SectionLength(sliced.receding) < n

\* C7 as stated: whichever operation produced the sectioning result, it
\* reports isValid = false whenever the approaching or the receding section
\* has fewer than 2048 samples.
C7_Original ==
    (sliced.op # "none" /\ SectionShorterThan(2048)) => ~sliced.validation.isValid

\* the minimum extractBestSections validates each strategy against
StrategyMinimum(name) ==
    CASE name = "closest_approach" -> 2048
      [] name = "short_file_quarters" -> 1024
      [] name = "simple_quarters" -> 512

\* C7 (amended): the validation attached by extractOptimalSections is
\* isValid = false whenever a returned section has fewer than 2048 samples;
\* the validation attached by extractBestSections is isValid = false
\* whenever a returned section has fewer samples than the minimum of the
\* selected strategy (2048, 1024 or 512).
C7_Amended ==
    /\ (sliced.op = "extractOptimalSections" /\ SectionShorterThan(2048))
           => ~sliced.validation.isValid
    /\ (sliced.op = "extractBestSections"
           /\ SectionShorterThan(StrategyMinimum(sliced.selectedStrategy)))
           => ~sliced.validation.isValid

\* extractOptimalSections in auto mode selected the short-file quarters,
\* which passed their own minimum of 1024 with fewer than 2048 samples, and
\* reports the sectioning invalid
C7_Witness ==
    /\ sliced.op = "extractOptimalSections"
    /\ sliced.configured = "auto"
    /\ sliced.selectedStrategy = "short_file_quarters"
    /\ sliced.confidence = 70
    /\ SectionLength(sliced.approaching) >= 1024
    /\ SectionShorterThan(2048)
    /\ ~sliced.validation.isValid

ValidCandidates == {i \in 1..Len(sliced.strategies) : sliced.strategies[i].validation.isValid}

PriorityOf(name) ==
    CASE name = "closest_approach" -> 1
      [] name = "short_file_quarters" -> 2
      [] name = "simple_quarters" -> 3

\* the returned object carries candidate i
Returned(i) ==
    /\ sliced.selectedStrategy = sliced.strategies[i].name
    /\ sliced.confidence = sliced.strategies[i].confidence
    /\ sliced.validation = sliced.strategies[i].validation
    /\ sliced.approaching = sliced.strategies[i].sections.approaching
    /\ sliced.receding = sliced.strategies[i].sections.receding

\* C8: extractBestSections returns the candidate with the highest
\* confidence among those whose validation passes, which is the first
\* passing one in the order closest_approach, short_file_quarters,
\* simple_quarters; when no candidate validates it returns a candidate of
\* the highest confidence and the returned validation.isValid is false.
C8_BestValidStrategy ==
    sliced.op = "extractBestSections" =>
        \E i \in 1..Len(sliced.strategies) :
            /\ Returned(i)
            /\ IF ValidCandidates # {}
               THEN /\ i \in ValidCandidates
                    /\ \A j \in ValidCandidates :
                        /\ sliced.strategies[j].confidence <= sliced.strategies[i].confidence
                        /\ PriorityOf(sliced.strategies[i].name)
                               <= PriorityOf(sliced.strategies[j].name)
               ELSE /\ \A j \in 1..Len(sliced.strategies) :
                          sliced.strategies[j].confidence <= sliced.strategies[i].confidence
                    /\ ~sliced.validation.isValid

\* the short-file quarters were tried and failed, the simple quarters pass
\* and are returned
C8_Witness ==
    /\ sliced.op = "extractBestSections"
    /\ Len(sliced.strategies) = 2
    /\ sliced.strategies[1].name = "short_file_quarters"
    /\ ~sliced.strategies[1].validation.isValid
    /\ sliced.selectedStrategy = "simple_quarters"
    /\ sliced.validation.isValid

(***************************************************************************)
(* Claims about the failure handling of AudioAnalyzer                      *)
(***************************************************************************)
NoTierValid == ~best.primary.valid /\ ~best.secondary.valid /\ ~best.tertiary.valid

\* C5: analyzeAudioForSpeed and findBestSpeedCalculation never let an
\* exception out: every call, whatever the candidate lists and whichever
\* stage or tier raises, returns a result object; and when no tier has a
\* valid pair findBestSpeedCalculation returns valid = false with a null
\* speedMph and a non-empty error string
C5_NeverThrows ==
    /\ best.called => ~best.result.threw
    /\ best.called /\ NoTierValid =>
          /\ ~best.result.valid
          /\ IsNullSpeed(best.result.speedMph)
          /\ best.result.error # ""
    /\ analysis.called => ~analysis.threw

\* both entry points have been called; no tier had a pair to try and the
\* matching stage of the pipeline raised
C5_Witness ==
    /\ best.called /\ NoTierValid /\ ~best.result.valid
    /\ analysis.called /\ analysis.stage = "match" /\ ~analysis.success

\* C6: every failure result of analyzeAudioForSpeed carries diagnostics
\* with at least one issue and at least one recommendation
C6_FailureHasDiagnostics ==
    analysis.called /\ ~analysis.success =>
        /\ analysis.hasDiagnostics
        /\ analysis.issues >= 1
        /\ analysis.recommendations >= 1

(***************************************************************************)
(* Claims about SpectrumAnalyzer                                           *)
(***************************************************************************)
\* some calculatePowerSpectrum call has resolved
CompletedCall == \E i \in Calls : spCalls[i] = "done"

Queried == spQuery.op # "none"

\* C9: whatever the operations on the instance so far, findPeakFrequency
\* and getStrongestFrequencies raise in every state in which no
\* calculatePowerSpectrum call has completed (none made, one still waiting
\* for its transform, or failed) and do not raise once a call has completed
C9_RaisesUntilCompleted == Queried => (spQuery.raised <=> ~CompletedCall)

\* a query raised after one call had failed and while another was still
\* waiting for its transform
C9_Witness ==
    /\ Queried /\ spQuery.raised
    /\ \E i \in Calls : spCalls[i] = "failed"
    /\ \E i \in Calls : spCalls[i] = "transforming"

\* the bin of a returned candidate: frequencies differ from bin to bin
BinOf(candidate) ==
    CHOOSE b \in 1 .. Len(spFrequencies.items) :
        spFrequencies.items[b] = candidate.frequency

Answered == spQuery.op = "getStrongestFrequencies" /\ ~spQuery.raised

\* C10: after a successful calculatePowerSpectrum, getStrongestFrequencies(k)
\* returns exactly min(k, number of bins) candidates, each a different bin
\* of the spectrum with its power, in non-increasing power order; no bin
\* left out has more power than a returned one; and of two bins of equal
\* power the one of lower frequency comes first, whether both are returned
\* or only one is
C10_StrongestFrequencies ==
    Answered =>
        LET result == spQuery.candidates
            power == powerSpectrum.items
            bins == 1 .. Len(power)
            returned == {BinOf(result[i]) : i \in 1 .. Len(result)}
        IN  /\ Len(result) = Min2(spQuery.count, Len(power))
            /\ \A i \in 1 .. Len(result) :
                  /\ \E b \in bins : spFrequencies.items[b] = result[i].frequency
                  /\ result[i].power = power[BinOf(result[i])]
            /\ Cardinality(returned) = Len(result)
            /\ \A i, j \in 1 .. Len(result) :
                  i < j =>
                      /\ result[i].power >= result[j].power
                      /\ result[i].power = result[j].power =>
                             FracLess(result[i].frequency, result[j].frequency)
            /\ \A b \in bins \ returned : \A i \in 1 .. Len(result) :
                  /\ result[i].power >= power[b]
                  /\ result[i].power = power[b] =>
                         FracLess(result[i].frequency, spFrequencies.items[b])

\* two of four bins asked for and three bins share the returned power: a
\* tie decides the order of the two and which bin is left out
C10_Witness ==
    /\ Answered /\ spQuery.count = 2 /\ Len(powerSpectrum.items) = 4
    /\ Len(spQuery.candidates) = 2
    /\ spQuery.candidates[1].power = spQuery.candidates[2].power
    /\ \E b \in 1 .. 4 :
          /\ powerSpectrum.items[b] = spQuery.candidates[2].power
          /\ spFrequencies.items[b] \notin
                 {spQuery.candidates[i].frequency : i \in 1 .. 2}

(***************************************************************************)
(* Claims about ApproachDetector                                           *)
(***************************************************************************)
\* the minimumConfidence the last call worked with
EffectiveMinimumConfidence ==
    IF apOptions.given THEN apOptions.minimumConfidence ELSE DefaultMinimumConfidence

\* the positions of the peak list whose confidence reaches the minimum
Qualifying ==
    {k \in 1..Len(detection.allPeaks) :
        FracLeq(EffectiveMinimumConfidence, detection.allPeaks[k].confidence)}

\* position k is the most prominent peak among the positions in S
MostProminentIn(k, S) ==
    /\ k \in S
    /\ \A j \in S : FracLeq(detection.allPeaks[j].prominence,
                            detection.allPeaks[k].prominence)

\* C11: the selection reports found = false, with the midpoint of the energy
\* profile as index, exactly when the peak list is empty; otherwise it reports
\* found = true with the index of the most prominent peak whose confidence
\* reaches minimumConfidence, or, when no peak reaches it, the index of the most
\* prominent peak of all and a low-confidence reason
C11_SelectsMostProminent ==
    detection.called =>
        LET peaks == detection.allPeaks
            all == 1..Len(peaks)
        IN  /\ ~detection.found <=> peaks = <<>>
            /\ peaks = <<>> =>
                   detection.closestApproachIndex = Len(detection.energyProfile) \div 2
            /\ peaks # <<>> /\ Qualifying # {} =>
                   /\ \E k \in Qualifying :
                          /\ MostProminentIn(k, Qualifying)
                          /\ detection.closestApproachIndex = peaks[k].index
                   /\ detection.reason = "High confidence peak detected"
            /\ peaks # <<>> /\ Qualifying = {} =>
                   /\ \E k \in all :
                          /\ MostProminentIn(k, all)
                          /\ detection.closestApproachIndex = peaks[k].index
                   /\ detection.reason = "Low confidence peak selected"

\* a call that found peaks, none of them with enough confidence
C11_Witness ==
    /\ detection.called
    /\ detection.allPeaks # <<>>
    /\ Qualifying = {}
    /\ detection.found

\* the energy profile before smoothing
RawProfile == calculateEnergyProfile(apSamples, windowSamples(apRate))

\* the profile rises to position k and falls after it, and the energy at k is
\* above that of both neighbours and of every other position
SingleSharpPeakAt(profile, k) ==
    /\ k \in 2 .. Len(profile) - 1
    /\ \A p \in 1 .. Len(profile) :
           p # k => FracLess(profile[p].energy, profile[k].energy)
    /\ \A p \in 1 .. k - 1 : FracLeq(profile[p].energy, profile[p + 1].energy)
    /\ \A p \in k .. Len(profile) - 1 : FracLeq(profile[p + 1].energy, profile[p].energy)

\* Math.floor(smoothingSamples / 2)
smoothingRadius(sampleRate) == smoothingSamples(sampleRate) \div 2

\* C12: with default options, an input whose energy profile has a single sharp
\* peak at index k is reported found, at an index within the smoothing radius
\* of k, with a confidence above 0.5
C12_SharpPeakFound ==
    detection.called /\ ~apOptions.given =>
        \A k \in 1 .. Len(RawProfile) :
            SingleSharpPeakAt(RawProfile, k) =>
                /\ detection.found
                /\ Abs(detection.closestApproachIndex - RawProfile[k].index)
                       <= smoothingRadius(apRate)
                /\ FracLess(Frac(1, 2), detection.confidence)

\* a single sharp peak that is reported as the claim says
C12_SharpPeakReported ==
    /\ detection.called /\ ~apOptions.given
    /\ \E k \in 1 .. Len(RawProfile) : SingleSharpPeakAt(RawProfile, k)
    /\ C12_SharpPeakFound

(***************************************************************************)
(* Claims about the matches of combineAnalyses                             *)
(***************************************************************************)
\* the candidate pairs: positions in the top five of either analysis
CandidatePairs ==
    IF anaApproach.valid /\ anaRecede.valid
    THEN (1..Len(Take(anaApproach.frequencies, TopCombineCount)))
             \X (1..Len(Take(anaRecede.frequencies, TopCombineCount)))
    ELSE {}

\* the composite confidence of the candidate pair at positions <<i, j>>
PairConfidence(pair) ==
    LET a == anaApproach.frequencies[pair[1]]
        r == anaRecede.frequencies[pair[2]]
    IN  calculateSpeedConfidence(a, r,
            calculateSpeed(DefaultMinSpeed, DefaultMaxSpeed, a.frequency, r.frequency),
            anaApproach.quality, anaRecede.quality)

\* the approach frequency is the higher one
HigherApproach(pair) ==
    anaApproach.frequencies[pair[1]].frequency > anaRecede.frequencies[pair[2]].frequency

\* the pairs the claim says are retained
RetainedPairs ==
    {pair \in CandidatePairs :
        /\ HigherApproach(pair)
        /\ 100 * PairConfidence(pair).n >= anaThreshold * PairConfidence(pair).d}

\* the entries of speedCalculations made from the pair
EntriesOf(pair) ==
    {k \in 1..Len(combined.speedCalculations) :
        /\ combined.speedCalculations[k].approachRank
               = anaApproach.frequencies[pair[1]].rank
        /\ combined.speedCalculations[k].recedeRank
               = anaRecede.frequencies[pair[2]].rank
        /\ combined.speedCalculations[k].approachFreq
               = anaApproach.frequencies[pair[1]].frequency
        /\ combined.speedCalculations[k].recedeFreq
               = anaRecede.frequencies[pair[2]].frequency}

IsUnitFraction(x) == x.d > 0 /\ x.n >= 0 /\ x.n <= x.d

\* every match of combineAnalyses carries a confidence between 0 and 1
CombineConfidenceInUnit ==
    combined.called =>
        /\ \A k \in 1..Len(combined.speedCalculations) :
               IsUnitFraction(combined.speedCalculations[k].confidence)
        /\ combined.hasBest => IsUnitFraction(combined.bestSpeed.confidence)

\* C14: every valid result of findBestSpeedCalculation, whichever tier it
\* comes from, carries a numeric confidence between 0 and 1, as every match of
\* combineAnalyses does
C14_ValidResultHasConfidence ==
    /\ CombineConfidenceInUnit
    /\ best.called /\ best.result.valid => best.result.confidence # NoConfidence

\* the last call had candidates with positive frequencies only, on an
\* analyzer whose calculator has the default limits
PositiveCandidatesDefaultLimits ==
    /\ best.called /\ best.lo = 0 /\ best.hi = 1000
    /\ \A i \in 1..Len(argApproach) : argApproach[i] > 0
    /\ \A j \in 1..Len(argRecede) : argRecede[j] > 0

\* every approach candidate is below every recede candidate
ApproachBelowRecede ==
    \A i \in 1..Len(argApproach), j \in 1..Len(argRecede) :
        argApproach[i] < argRecede[j]

\* the three tier results and the returned result of the last call
ResultsOfCall == {best.primary, best.secondary, best.tertiary, best.result}

\* C15: for positive candidate frequencies and the default limits, every
\* valid result of a tier and of findBestSpeedCalculation has approachFreq
\* above recedeFreq, and candidate lists in which every approach frequency is
\* below every recede frequency yield no valid result
C15_ApproachAboveRecede ==
    PositiveCandidatesDefaultLimits =>
        /\ \A r \in ResultsOfCall : r.valid => r.approachFreq > r.recedeFreq
        /\ ApproachBelowRecede => \A r \in ResultsOfCall : ~r.valid

\* the part of C15 that holds: the frequencies of a valid result are in order
C15_ResultFieldsOrdered ==
    PositiveCandidatesDefaultLimits =>
        \A r \in ResultsOfCall : r.valid => r.approachFreq > r.recedeFreq

\* the three tiers ran: no candidate without a frequency stopped the call
TiersRan == best.called /\ ~best.primary.threw

\* C18: the tiers are ordered by decreasing strictness: whenever the Primary
\* tier returns a valid result so does the Secondary tier, and whenever the
\* Secondary tier returns a valid result so does the Tertiary tier
C18_TiersByStrictness ==
    TiersRan =>
        /\ best.primary.valid => best.secondary.valid
        /\ best.secondary.valid => best.tertiary.valid

\* the part of C18 that holds: what Secondary accepts, Tertiary accepts
C18_SecondaryWithinTertiary ==
    TiersRan => (best.secondary.valid => best.tertiary.valid)

\* the valid results among the pairs the Tertiary tier evaluates: every pair
\* of the first ten candidates of either list, in both orders
TertiaryValidPairs ==
    LET approachTop == Take(argApproach, TertiaryTopCount)
        recedeTop == Take(argRecede, TertiaryTopCount)
        ordered == {<<approachTop[i], recedeTop[j]>> :
                       i \in 1..Len(approachTop), j \in 1..Len(recedeTop)}
        reversed == {<<pair[2], pair[1]>> : pair \in ordered}
    IN  {c \in {TertiaryCandidate(pair[1], pair[2], argExpected) :
                   pair \in ordered \cup reversed} : c.valid}

\* C19: the Tertiary tier returns a valid result when one of the pairs of the
\* top ten candidates, in either order, is valid; the result is then a valid
\* pair of the smallest |speedMph - anchor| when an expected speed is given,
\* and the valid pair of the lowest positive speed when none is given
C19_TertiaryChoice ==
    TiersRan =>
        /\ best.tertiary.valid <=> TertiaryValidPairs # {}
        /\ best.tertiary.valid =>
               /\ best.tertiary \in TertiaryValidPairs
               /\ IsPositive(best.tertiary.speedKmh)
               /\ IF argExpected # 0
                  THEN \A c \in TertiaryValidPairs : ~ErrorLess(c, best.tertiary)
                  ELSE \A c \in TertiaryValidPairs :
                           ~SpeedLess(c.speedMph, best.tertiary.speedMph)

\* the part of C19 that holds: with an expected speed the result is a valid
\* pair of the smallest error
C19_WithAnchor ==
    TiersRan /\ argExpected # 0 =>
        /\ best.tertiary.valid <=> TertiaryValidPairs # {}
        /\ best.tertiary.valid =>
               /\ best.tertiary \in TertiaryValidPairs
               /\ \A c \in TertiaryValidPairs : ~ErrorLess(c, best.tertiary)

\* the candidate pairs of the last call, by their positions
MatcherPairs == (1..Len(argApproach)) \X (1..Len(argRecede))

\* what the matcher with limits lo and hi computes for the pair
PairResult(lo, hi, pair, anchor) ==
    calculateSpeedForFrequencyPair(lo, hi, argApproach[pair[1]], argRecede[pair[2]],
                                   anchor)

\* the place of the pair in approach-major, recede-minor order
PairOrder(pair) == (pair[1] - 1) * Len(argRecede) + pair[2]

\* the two valid results have the same |speedMph - anchor|
SameError(x, y) == ~ErrorLess(x, y) /\ ~ErrorLess(y, x)

\* result is what the claim gives for a matcher with the limits lo and hi
IsOptimalChoice(result, lo, hi, anchor) ==
    LET validPairs == {pair \in MatcherPairs : PairResult(lo, hi, pair, anchor).valid}
    IN  /\ result.valid <=> validPairs # {}
        /\ result.valid =>
               \E pair \in validPairs :
                   /\ result.approachFreq = argApproach[pair[1]]
                   /\ result.recedeFreq = argRecede[pair[2]]
                   /\ result.speedMph = PairResult(lo, hi, pair, anchor).speedMph
                   /\ \A other \in validPairs :
                          /\ ~ErrorLess(PairResult(lo, hi, other, anchor),
                                        PairResult(lo, hi, pair, anchor))
                          /\ SameError(PairResult(lo, hi, other, anchor),
                                       PairResult(lo, hi, pair, anchor))
                                 => PairOrder(pair) <= PairOrder(other)

\* C20: findOptimalSpeedCalculation, with the anchor of the Primary tier
\* (expected speed or 30) and of the Secondary tier (expected speed or 50),
\* returns valid = false exactly when no candidate pair gives a valid speed,
\* and otherwise the valid pair of the smallest |speedMph - anchor|, the first
\* in approach-major, recede-minor order among those of equal error
C20_OptimalPair ==
    TiersRan =>
        /\ IsOptimalChoice(best.primary, best.lo, best.hi,
                           OrDefault(argExpected, PrimaryDefaultExpected))
        /\ IsOptimalChoice(best.secondary, 0, SecondaryMaxSpeed,
                           OrDefault(argExpected, SecondaryDefaultExpected))

\* a call in which two pairs of different frequencies have the smallest error
\* for the Primary tier
C20_Witness ==
    /\ TiersRan /\ best.primary.valid
    /\ \E pair \in MatcherPairs, other \in MatcherPairs :
           LET anchor == OrDefault(argExpected, PrimaryDefaultExpected)
               first == PairResult(best.lo, best.hi, pair, anchor)
               second == PairResult(best.lo, best.hi, other, anchor)
           IN  /\ first.valid /\ second.valid
               /\ SameError(first, second)
               /\ SameError(first, best.primary)
               /\ first.approachFreq # second.approachFreq
               /\ PairOrder(pair) < PairOrder(other)
               /\ best.primary.approachFreq = first.approachFreq

(***************************************************************************)
(* Claims about AudioProcessor and the time-based sections                 *)
(***************************************************************************)
FracAbs(x) == [n |-> Abs(x.n), d |-> Abs(x.d)]

\* the outputs are the inputs times one positive factor: each output has the
\* sign of its input, and any two outputs are in the ratio of their inputs
ScaledByPositiveFactor(input, output) ==
    /\ Len(output) = Len(input)
    /\ \A i \in 1..Len(input) :
           /\ output[i].d > 0
           /\ (output[i].n > 0) = (input[i] > 0)
           /\ (output[i].n < 0) = (input[i] < 0)
    /\ \A i, j \in 1..Len(input) :
           output[i].n * output[j].d * input[j] = output[j].n * output[i].d * input[i]

\* the largest absolute value of the sequence is the given fraction
MaxAbsIs(output, bound) ==
    /\ \E i \in 1..Len(output) : FracAbs(output[i]) = bound
    /\ \A i \in 1..Len(output) : ~FracLess(bound, FracAbs(output[i]))

ExpectedFrom == Max2(0, sampleAt(processed.startTime, prRate))

ExpectedTo == Min2(Len(prSamples), sampleAt(processed.endTime, prRate))

\* the section holds the samples at the positions from .. to - 1, none when
\* from >= to
IsRange(section, from, to) ==
    IF from >= to THEN SectionLength(section) = 0
    ELSE section.from = from /\ section.to = to

\* C17: both extractTimeSections return, for a range [start, end] in seconds,
\* exactly the samples from max(0, floor(start * sampleRate)) up to but
\* excluding min(length, floor(end * sampleRate)): a range past the end is
\* truncated, a range with start >= end gives an empty section, and no section
\* holds a sample outside the range
C17_TimeSections ==
    processed.op = "extractTimeSections" =>
        /\ IsRange(processed.processor, ExpectedFrom, ExpectedTo)
        /\ IsRange(processed.slicer, ExpectedFrom, ExpectedTo)
        /\ processed.startTime >= processed.endTime =>
               /\ SectionLength(processed.processor) = 0
               /\ SectionLength(processed.slicer) = 0

\* the same for ranges whose limits are not negative
C17_NonNegativeTimes ==
    (processed.op = "extractTimeSections"
     /\ processed.startTime >= 0 /\ processed.endTime >= 0) =>
        /\ IsRange(processed.processor, ExpectedFrom, ExpectedTo)
        /\ IsRange(processed.slicer, ExpectedFrom, ExpectedTo)


(***************************************************************************)
(* The tiers of findBestSpeedCalculation: precedence and shared state      *)
(***************************************************************************)
\* the returned object is the one the Tertiary tier produced
ReturnsTertiary == best.result.valid /\ best.result.strategy = "Tertiary"

\* C21: whenever the Primary or the Secondary tier yields a valid result,
\* the result findBestSpeedCalculation returns is not the Tertiary tier's
C21_TertiaryLastResort ==
    (best.called /\ (best.primary.valid \/ best.secondary.valid))
        => ~ReturnsTertiary

\* C21, the part that holds: a returned result is the Primary tier's only
\* when Primary was valid, and likewise for the other two tiers
C21_ReturnedTierWasValid ==
    (best.called /\ best.result.valid) =>
        /\ best.result.strategy = "Primary" => best.result = best.primary
        /\ best.result.strategy = "Secondary" => best.result = best.secondary
        /\ best.result.strategy = "Tertiary" => best.result = best.tertiary

\* C22: after a findBestSpeedCalculation call the limits of the analyzer's
\* own calculator and both candidate lists are what they were before the
\* call: no tier leaves its limits or a changed list behind for another
C22_TiersShareNoState ==
    best.called =>
        /\ minReasonableSpeed = best.lo
        /\ maxReasonableSpeed = best.hi
        /\ argApproach = best.approachFrequencies
        /\ argRecede = best.recedeFrequencies

\* C22: a call made again on the state a call left returns the same result
C22_RepeatCallSameResult ==
    best.called =>
        findBestSpeedCalculation(minReasonableSpeed, maxReasonableSpeed,
            argApproach, argRecede, argExpected).result = best.result

\* C22 as a property of each step: a call changes neither the limits nor
\* the lists, and a call after a call changes nothing at all
C22_CallChangesNothing ==
    [][FindBestSpeedCalculation =>
          /\ UNCHANGED <<calcVars, bestArgs>>
          /\ best.called => best' = best]_vars

\* C22: each tier's result is the one that tier gives when run alone on
\* the inputs, with the limits the analyzer's calculator had before the call
C22_TierResultsIndependent ==
    (best.called /\ ~best.primary.threw) =>
        /\ best.primary = tryPrimaryStrategy(minReasonableSpeed,
               maxReasonableSpeed, argApproach, argRecede, argExpected)
        /\ best.secondary = trySecondaryStrategy(argApproach, argRecede,
               argExpected)
        /\ best.tertiary = tryTertiaryStrategy(argApproach, argRecede,
               argExpected)

\* all three tiers ran on an analyzer whose limits are not those of any tier
C22_Witness ==
    /\ best.called
    /\ best.primary.valid /\ best.secondary.valid /\ best.tertiary.valid
    /\ minReasonableSpeed = 10 /\ maxReasonableSpeed = 200
    /\ Len(argApproach) = MaxCand /\ Len(argRecede) = MaxCand


(***************************************************************************)
(* The caller's sample buffer                                              *)
(***************************************************************************)
\* C23: after normalizeAmplitude, findClosestApproach, a sectioning call of
\* AudioSlicer or a SpectrumAnalyzer run, and after any later write into a
\* handed section, the caller's array has its length and no sample of it
\* has been written
C23_InputBufferUntouched ==
    handed.op # "none" =>
        /\ objects[InputObject].length = slLength
        /\ objects[InputObject].written = {}

\* C23: no handed section is the caller's array or a part of it
C23_SectionsAreCopies ==
    handed.op \in SectioningOps =>
        \A i \in 1 .. Len(handed.arrays) :
            handed.arrays[i].obj # InputObject

\* the caller wrote into both sections of a closest-approach sectioning
C23_Witness ==
    /\ handed.op = "extractSections"
    /\ \A i \in 1 .. 2 : objects[handed.arrays[i].obj].written # {}
    /\ slLength > 2 * minSectionSamples

\* normalizeAmplitude hands a silent buffer back as it is: the result is
\* the caller's array, not a copy
NormalizeReturnsInput ==
    (handed.op = "normalizeAmplitude" /\ bufSilent) =>
        handed.arrays[1].obj = InputObject


(***************************************************************************)
(* Sections around the closest approach, and quarter sections              *)
(***************************************************************************)
\* the approach section lies before the index, the recede section does not
\* start before it, and no sample is in both
ApartAt(sections, index) ==
    /\ sections.approaching.to <= index
    /\ sections.receding.from >= index
    /\ \/ SectionLength(sections.approaching) = 0
       \/ SectionLength(sections.receding) = 0
       \/ sections.approaching.to <= sections.receding.from

\* C24: for a closest-approach index inside the buffer, the approach section
\* of AudioSlicer.extractSections holds only samples before the index and
\* the recede section only samples after it, so they share no sample
C24_SectionsApart ==
    (sliced.strategy = "closest_approach"
        /\ sliced.index >= 0 /\ sliced.index < slLength)
        => ApartAt(sliced, sliced.index)

\* C24 for SpeedAnalyzer.extractApproachSections, for every index inside
\* the buffer the sections are taken from
C24_SpeedAnalyzerSectionsApart ==
    sliced.op # "none" =>
        \A index \in IndexChoices(slLength) \ {slLength} :
            ApartAt(extractApproachSections(slLength, slRate, index), index)

\* C24, what holds of extractSections: once the index is the minimum
\* section length and the margin away from both ends, the sections are
\* apart
C24_ApartAwayFromEnds ==
    (sliced.strategy = "closest_approach"
        /\ sliced.index - marginSamples(slLength, slRate) >= minSectionSamples
        /\ sliced.index + marginSamples(slLength, slRate)
               <= slLength - minSectionSamples)
        => ApartAt(sliced, sliced.index)

QuarterStrategies == {"short_file_quarters", "simple_quarters"}

\* C25: quarter sectioning returns the first floor(N/4) samples as the
\* approach section and the last floor(N/4) as the recede section, and
\* extractShortFileSections, the simple_quarters fallback and
\* AudioAnalyzer.extractSimpleSections return the same sections
C25_QuarterSections ==
    sliced.strategy \in QuarterStrategies =>
        /\ sliced.approaching = [from |-> 0, to |-> slLength \div 4]
        /\ sliced.receding = [from |-> slLength - slLength \div 4, to |-> slLength]
        /\ SectionLength(sliced.approaching) = slLength \div 4
        /\ SectionLength(sliced.receding) = slLength \div 4
        /\ sliced.approaching = extractSimpleSections(slLength).approaching
        /\ sliced.receding = extractSimpleSections(slLength).receding

\* C25, what holds: for a buffer of four samples or more, and for an empty
\* one, the three functions agree on the first and the last quarter
C25_QuartersFromFourSamples ==
    (sliced.strategy \in QuarterStrategies /\ (slLength >= 4 \/ slLength = 0)) =>
        /\ sliced.approaching = [from |-> 0, to |-> slLength \div 4]
        /\ sliced.receding = [from |-> slLength - slLength \div 4, to |-> slLength]
        /\ sliced.approaching = extractSimpleSections(slLength).approaching
        /\ sliced.receding = extractSimpleSections(slLength).receding
        /\ extractShortFileSections(slLength).receding
               = SimpleQuarters(slLength).receding

\* AudioAnalyzer.extractSimpleSections alone does what C25 says, for every
\* length
C25_SimpleSectionsAreQuarters ==
    sliced.op # "none" =>
        /\ extractSimpleSections(slLength).approaching
               = [from |-> 0, to |-> slLength \div 4]
        /\ extractSimpleSections(slLength).receding
               = [from |-> slLength - slLength \div 4, to |-> slLength]

\* a call of AudioAnalyzer.extractSections with 'peak_rms_energy' on a
\* recording of 2 seconds or more
LongPeakRmsCall ==
    /\ sliced.op = "AudioAnalyzer.extractSections"
    /\ sliced.configured = "peak_rms_energy"
    /\ slLength >= 2 * slRate

\* both returned sections have at least 2048 samples
ReturnedSectionsValid == validateSections(sliced, minSectionSamples).isValid

\* C27: on a recording of 2 seconds or more, extractSections with
\* 'peak_rms_energy' returns sections tagged 'peak_rms_energy' only when
\* they pass validateSections, and the quarter sections tagged 'quarters'
\* when the closest-approach sections fail it
C27_FallsBackWhenInvalid ==
    LongPeakRmsCall =>
        /\ sliced.sectioningMethod = "peak_rms_energy" => ReturnedSectionsValid
        /\ ~validateSections(extractSections(slLength, slRate, sliced.index),
                             minSectionSamples).isValid
             => /\ sliced.sectioningMethod = "quarters"
                /\ sliced.approaching = extractSimpleSections(slLength).approaching
                /\ sliced.receding = extractSimpleSections(slLength).receding

\* C27, what holds: below 2 seconds the sections of extractShortFileSections
\* are returned, and for any other strategy those of extractSimpleSections,
\* both tagged 'quarters'
C27_QuartersOtherwise ==
    (sliced.op = "AudioAnalyzer.extractSections" /\ ~LongPeakRmsCall) =>
        LET quarters == IF sliced.configured = "peak_rms_energy"
                        THEN extractShortFileSections(slLength)
                        ELSE extractSimpleSections(slLength)
        IN  /\ sliced.sectioningMethod = "quarters"
            /\ sliced.approaching = quarters.approaching
            /\ sliced.receding = quarters.receding

\* C27, what holds: at 2048 samples or more the closest-approach sections
\* always pass the validation, so the missing fallback is not observable
C27_ValidFromOneWindow ==
    (LongPeakRmsCall /\ slLength >= minSectionSamples) => ReturnedSectionsValid


(***************************************************************************)
(* The speedReasonableness term of the composite confidence                *)
(***************************************************************************)
\* the term calculateSpeedConfidence computes for an emitted pair, as a
\* fraction of 1
speedReasonableness(entry) ==
    LET term == SpeedTerm(entry.speed)
    IN  Frac(term.n, 4000 * term.d)

\* the pair's Doppler speed expressed in mph
MphOf(entry) == ToMph(entry.speed)

\* C26: the speedReasonableness term of a pair is 1.0 exactly when the
\* pair's speed in mph lies in [5, 100]; below 5 mph it is speed/5, which
\* is below 1; above 100 mph it is max(0.2, 1 - (speed - 100)/100), which
\* is above 0.2 and below 1 up to 180 mph and 0.2 from 180 mph on
C26_ReasonablenessInMph ==
    combined.called =>
        \A i \in 1 .. Len(combined.speedCalculations) :
            LET entry == combined.speedCalculations[i]
                term == speedReasonableness(entry)
                mph == MphOf(entry)
            IN  /\ (MphGeq(mph, 5) /\ MphLeq(mph, 100)) <=> term = Frac(1, 1)
                /\ MphLess(mph, 5) => FracLess(term, Frac(1, 1))
                /\ (MphGreater(mph, 100) /\ MphLess(mph, 180)) =>
                       FracLess(Frac(1, 5), term) /\ FracLess(term, Frac(1, 1))
                /\ MphGeq(mph, 180) => term = Frac(1, 5)

\* C26, what the code does: the same three cases with the speed in km/h
C26_ReasonablenessInKmh ==
    combined.called =>
        \A i \in 1 .. Len(combined.speedCalculations) :
            LET entry == combined.speedCalculations[i]
                term == speedReasonableness(entry)
            IN  /\ (KmhGeq(entry.speed, 5) /\ ~KmhGreater(entry.speed, 100))
                       <=> term = Frac(1, 1)
                /\ ~KmhGeq(entry.speed, 5) => FracLess(term, Frac(1, 1))
                /\ (KmhGreater(entry.speed, 100) /\ ~KmhGeq(entry.speed, 180)) =>
                       FracLess(Frac(1, 5), term) /\ FracLess(term, Frac(1, 1))
                /\ KmhGeq(entry.speed, 180) => term = Frac(1, 5)


(***************************************************************************)
(* The error field of calculateSpeedWithValidation                         *)
(***************************************************************************)
\* C28: after any sequence of setSpeedLimits calls, a result of
\* calculateSpeedWithValidation with valid=false carries an error string
\* and a result with valid=true carries error=null
C28_ErrorIffInvalid ==
    dop.op = "calculateSpeedWithValidation" =>
        /\ ~dop.res.valid => dop.res.error # NoError
        /\ dop.res.valid => dop.res.error = NoError

\* C28, what holds: with a minimum of 0 or more the error string is there
\* exactly when the result is invalid
C28_WithNonNegativeMinimum ==
    (dop.op = "calculateSpeedWithValidation" /\ dop.lo >= 0) =>
        (dop.res.valid <=> dop.res.error = NoError)

\* C28, what holds for every limit setting: a valid result has error=null
C28_ValidHasNoError ==
    (dop.op = "calculateSpeedWithValidation" /\ dop.res.valid) =>
        dop.res.error = NoError


(***************************************************************************)
(* The WASM+SIMD wrapper under concurrent and repeated fft() calls         *)
(***************************************************************************)
\* no call has invoked a function of a module instance whose runtime was
\* not yet initialised
NoCallBeforeInit ==
    \A c \in 1 .. MaxFftCalls : ~fftCalls[c].beforeInit

\* an instance that a transform has used stays in wasmModule
ModuleKeptOnceUsed ==
    (wasmModule # 0 /\ instances[wasmModule].transformed)
        => wasmModule' = wasmModule

\* C29: under every interleaving of concurrently started fft() calls, no
\* call invokes a function of the WASM module before its runtime is
\* initialised, and the instance in wasmModule is never replaced once a
\* transform has used it
C29_LoadedOnceBeforeUse ==
    [][NoCallBeforeInit' /\ ModuleKeptOnceUsed]_vars

\* C29, each half on its own
C29_NoCallBeforeInit == [][NoCallBeforeInit']_vars

C29_ModuleKeptOnceUsed == [][ModuleKeptOnceUsed]_vars

\* C29, the consequence of a replaced instance: every transform runs on
\* the instance that made its setup
C29_SetupOfSameInstance ==
    \A c \in 1 .. MaxFftCalls :
        fftCalls[c].pc = "done" =>
            setups[fftCalls[c].setupPtr].module = fftCalls[c].module

\* C30: after any sequence of fft() calls with differing lengths, calls in
\* which _pffft_new_setup fails included, the cached fftSetup never refers
\* to a destroyed setup, and no transform has run with a destroyed setup
C30_SetupNeverStale ==
    /\ ~fftSetup.isNull => ~setups[fftSetup.setupPtr].destroyed
    /\ \A c \in 1 .. MaxFftCalls : ~fftCalls[c].destroyedSetup

\* C30, what holds: as long as no _pffft_new_setup call has failed, the
\* cached setup is alive
C30_AliveWithoutFailure ==
    (\A c \in 1 .. MaxFftCalls :
        fftCalls[c].pc = "failed" => ~IsPowerOfTwoLength(fftCalls[c].length))
        => (~fftSetup.isNull => ~setups[fftSetup.setupPtr].destroyed)

=============================================================================
